---- MODULE Spec2Model ----
(***************************************************************************)
(* Model of the agent test platform's execution engine:                    *)
(*   - NodeDAGExecutor (core/node_executor.py): one virtual user walking   *)
(*     the node graph of a scenario;                                       *)
(*   - TestOrchestrator / SmartTestOrchestrator (core/orchestrator.py,     *)
(*     core/smart_orchestrator.py): the fan-out of the user tasks of a     *)
(*     run behind a semaphore, and the aggregation of their outcomes.      *)
(*                                                                         *)
(* Node ids are the positions 1..Len(nodes) of the scenario's node list;   *)
(* GhostId is a dependency id that names no node of the scenario.          *)
(* nodes[i] is the `dependencies` column of node i, kept as a set: a       *)
(* repeated entry of the list increments and decrements in_degree the same *)
(* number of times and is tested once more by _check_dependencies, so it   *)
(* changes no result.                                                      *)
(***************************************************************************)
EXTENDS Integers, Sequences, FiniteSets, TLC

\* ------------------------------------------------------------------------
\* Bounds of the model
\* ------------------------------------------------------------------------
MaxNodes == 3
MaxDeps == 2
MaxEdges == 2
MaxUsers == 4
MaxConcurrency == 2

\* a dependency id that is the id of no node of the scenario
GhostId == 0

DepTargets(n) == (1..n) \cup {GhostId}

\* ------------------------------------------------------------------------
\* Small helpers on sequences
\* ------------------------------------------------------------------------
Range(s) == {s[i] : i \in DOMAIN s}

RECURSIVE SumSeq(_)
SumSeq(s) == IF s = <<>> THEN 0 ELSE Head(s) + SumSeq(Tail(s))

\* ------------------------------------------------------------------------
\* NodeDAGExecutor._topological_sort (Kahn's algorithm)
\* ------------------------------------------------------------------------
\* node_ids = self._node_ids()
node_ids(ns) == [i \in 1..Len(ns) |-> i]

\* (mutant of InDegreeInit: the in-degrees are never incremented)
InDegreeInit_NeverIncremented(ns) == [i \in 1..Len(ns) |-> 0]

\* in_degree[node_id] += 1 for each dependency that is a key of adjacency
InDegreeInit(ns) ==
    [i \in 1..Len(ns) |-> Cardinality(ns[i] \cap (1..Len(ns)))]

\* adjacency[dep_id].append(node_id), nodes visited in list order
AdjacencyOf(ns) ==
    [d \in 1..Len(ns) |->
        LET DependsOnD(i) == d \in ns[i] IN SelectSeq(node_ids(ns), DependsOnD)]

\* the inner for loop of the while: decrement each neighbour, enqueue at zero
RECURSIVE RelaxNeighbors(_, _, _)
RelaxNeighbors(adj, in_degree, queue) ==
    IF adj = <<>> THEN [in_degree |-> in_degree, queue |-> queue]
    ELSE LET nb == Head(adj)
             deg == [in_degree EXCEPT ![nb] = @ - 1]
         IN RelaxNeighbors(Tail(adj), deg,
                           IF deg[nb] = 0 THEN Append(queue, nb) ELSE queue)

\* the while loop: pop(0), append to result, relax the neighbours
RECURSIVE KahnLoop(_, _, _, _)
KahnLoop(adjacency, in_degree, queue, result) ==
    IF queue = <<>> THEN result
    ELSE LET node_id == Head(queue)
             r == RelaxNeighbors(adjacency[node_id], in_degree, Tail(queue))
         IN KahnLoop(adjacency, r.in_degree, r.queue, Append(result, node_id))

\* (mutant of CycleCheck: the length test is missing)
CycleCheck_Off(result, ids) == result

\* the cycle check on the length of the result
CycleCheck(result, ids) == IF Len(result) # Len(ids) THEN <<>> ELSE result

_topological_sort(ns) ==
    LET deg == InDegreeInit(ns)
        IsRoot(i) == deg[i] = 0
        queue == SelectSeq(node_ids(ns), IsRoot)
    IN CycleCheck(KahnLoop(AdjacencyOf(ns), deg, queue, <<>>), node_ids(ns))

\* ------------------------------------------------------------------------
\* Graph notions used to state the properties (not taken from the code)
\* ------------------------------------------------------------------------
\* Direct dependencies of node i that are nodes of the scenario.
RealDeps(ns, i) == ns[i] \cap (1..Len(ns))

\* Nodes reachable from i along dependency edges in at most k steps.
RECURSIVE DepsWithin(_, _, _)
DepsWithin(ns, S, k) ==
    IF k = 0 THEN S
    ELSE DepsWithin(ns, S \cup UNION {RealDeps(ns, j) : j \in S}, k - 1)

\* Transitive dependencies of node i (i itself excluded unless on a cycle).
Ancestors(ns, i) == DepsWithin(ns, RealDeps(ns, i), Len(ns))

HasCycle(ns) == \E i \in 1..Len(ns) : i \in Ancestors(ns, i)

\* Position of id x in sequence s (0 when absent).
PosIn(s, x) == IF \E k \in DOMAIN s : s[k] = x
               THEN CHOOSE k \in DOMAIN s : s[k] = x ELSE 0

\* ------------------------------------------------------------------------
\* Scenario families
\* ------------------------------------------------------------------------
DepSets(n) == {D \in SUBSET DepTargets(n) : Cardinality(D) <= MaxDeps}

\* every node list of at most MaxNodes nodes, each with at most MaxDeps
\* dependencies
TopoScenarios ==
    UNION {[1..n -> DepSets(n)] : n \in 0..MaxNodes}

EdgeCount(ns) == SumSeq([i \in 1..Len(ns) |-> Cardinality(ns[i])])

\* the node list ns with its nodes renamed (and so reordered) by the
\* permutation f of 1..Len(ns); GhostId stays what it is
Renamed(ns, f) ==
    [j \in 1..Len(ns) |->
        LET i == CHOOSE k \in 1..Len(ns) : f[k] = j
        IN {IF d = GhostId THEN GhostId ELSE f[d] : d \in ns[i]}]

Renamings(n) == {f \in [1..n -> 1..n] : \A a, b \in 1..n : f[a] = f[b] => a = b}

\* a number that identifies the node list among those of its length
RECURSIVE Pow2(_)
Pow2(k) == IF k = 0 THEN 1 ELSE 2 * Pow2(k - 1)

GraphCode(ns) ==
    SumSeq([i \in 1..Len(ns) |->
        SumSeq([k \in 1..(Len(ns) + 1) |->
            IF (k - 1) \in ns[i] THEN Pow2((i - 1) * (Len(ns) + 1) + (k - 1)) ELSE 0])])

\* ns is the representative of the node lists that differ from it only by
\* the names and the order of the nodes
IsRepresentative(ns) ==
    \A f \in Renamings(Len(ns)) : GraphCode(ns) <= GraphCode(Renamed(ns, f))

\* the scenarios one user's traversal is checked on: the node lists of at
\* most MaxNodes nodes and at most MaxEdges dependency entries, one for each
\* class of lists equal up to renaming (the order the list gives to
\* independent nodes is covered by TopoScenarios)
ExecScenarios ==
    {ns \in UNION {[1..n -> {D \in SUBSET DepTargets(n) : Cardinality(D) <= MaxEdges}] :
                      n \in 0..MaxNodes} :
        EdgeCount(ns) <= MaxEdges /\ IsRepresentative(ns)}

\* ------------------------------------------------------------------------
\* State
\* ------------------------------------------------------------------------
VARIABLES
    nodes,            \* NodeDAGExecutor.nodes: the scenario's node list
    exec_pc,          \* position of NodeDAGExecutor.run
    node_states,      \* NodeDAGExecutor.node_states
    execution_order,  \* the local execution_order of run
    cursor,           \* index of the for loop over execution_order
    events,           \* the events handed to _send_event, in order
    agent_calls,      \* the node ids for which call_agent was invoked
    user_context,     \* the node ids whose extracted fields were merged
    node_executions,  \* NodeDAGExecutor.node_executions
    user_execution,   \* persisted status of the UserExecution record
    end_time,         \* NodeDAGExecutor.end_time
    run_result,       \* the value returned by run
    last              \* the node handled by the latest step, and how

exec_vars == <<nodes, exec_pc, node_states, execution_order, cursor, events,
               agent_calls, user_context, node_executions, user_execution,
               end_time, run_result, last>>

VARIABLES
    mode,             \* the controller: "node", "linear" or "multi"
    total_users,      \* TestRun.total_users / scenario.num_users / num_users
    concurrency,      \* the configured concurrency of the run
    ctl_pc,           \* position of the controller coroutine
    limit,            \* the value the user semaphore was created with
    semaphore,        \* the permits the semaphore has left
    task,             \* per user task: "waiting", "running", "done", "cancelled"
    results,          \* per user task: what gather collected for it
    run_status,       \* persisted TestRun.status ("absent": no record)
    success_users,    \* persisted success_users / completed_users
    failed_users,     \* persisted failed_users
    progress,         \* persisted progress
    error_message,    \* persisted error_message
    sm_state          \* TestOrchestrator.state_machine.state

run_vars == <<mode, total_users, concurrency, ctl_pc, limit, semaphore, task,
              results, run_status, success_users, failed_users, progress,
              error_message, sm_state>>

VARIABLES
    strategy,         \* the NodeStrategy of the dialog node
    conv_pc,          \* position of ConversationExecutor.execute
    conv_status,      \* self.conversation.status ("none": no conversation)
    conv_saved,       \* the status of the conversation in the database
    turn_count,       \* self.turn_count
    elapsed,          \* time.time() - self.start_time, in seconds
    turns,            \* the DialogTurn records created
    dialog_history,   \* self.dialog_history
    conv_final,       \* total_turns, task_generated and task_id of the conversation object
    conv_result,      \* what execute returned ("none": not yet)
    last_send,        \* how the latest _send_turn ended
    last_check        \* the latest call of should_continue_dialog

dialog_vars == <<strategy, conv_pc, conv_status, conv_saved, turn_count, elapsed,
                 turns, dialog_history, conv_result, last_send, last_check,
                 conv_final>>

VARIABLES
    sm_calls          \* the calls of StateMachine.transition made so far

VARIABLES
    node_strategies,  \* SmartTestOrchestrator.node_strategies[node_id]
    run_config,       \* the node config a multi-turn run was started with
    user_pc,          \* per user task of that run: where it is
    user_strategy     \* per user task: the strategy its conversation got

policy_vars == <<node_strategies, run_config, user_pc, user_strategy>>

VARIABLES
    heap,             \* the dict objects allocated, by address
    executors,        \* per user task: the dicts its NodeDAGExecutor refers to
    node_count,       \* per user task: the nodes its executor has handled
    access            \* the dicts the latest executor step read and wrote

users_vars == <<heap, executors, node_count, access>>

VARIABLES
    client_pc,        \* AgentHTTPClient.call_agent: idle, or awaiting the POST
    transport,        \* what the POST in flight is going to give
    returned          \* what the calls of call_agent gave, in order

client_vars == <<client_pc, transport, returned>>

VARIABLES
    should_continue,  \* ScenarioConfig.steps[i].should_continue, per step
    lin_pc,           \* position of VirtualUserExecutor.run
    step_index,       \* the local step_index of run
    test_steps,       \* status of the TestStep record of each step started
    lin_calls,        \* the steps for which call_agent was invoked
    lin_result,       \* the value returned by run
    lin_user,         \* the persisted VirtualUser record of the user
    lin_end_time      \* VirtualUserExecutor.end_time

linear_vars == <<should_continue, lin_pc, step_index, test_steps, lin_calls, lin_result,
                 lin_user, lin_end_time>>

VARIABLES
    message_strategy, \* NodeStrategy.message_strategy
    history_len,      \* len(conversation_history) of the next call
    messages          \* what the calls of get_next_message returned, in order

message_vars == <<message_strategy, history_len, messages>>

VARIABLES
    extraction,       \* config["extraction"] of the action node: key -> path
    agent_reply,      \* what call_agent gives for the action node
    context_fields    \* NodeDAGExecutor.user_context, key -> value

e2e_vars == <<extraction, agent_reply, context_fields>>

more_vars == <<policy_vars, users_vars, client_vars, linear_vars, message_vars, e2e_vars>>

vars == <<exec_vars, run_vars, dialog_vars, sm_calls, more_vars>>

\* no multi-turn policy store is involved
NoPolicy ==
    /\ node_strategies = "none"
    /\ run_config = "none"
    /\ user_pc = <<>>
    /\ user_strategy = <<>>

NoAccess == [user |-> 0, read |-> {}, written |-> {}]

\* no executor objects of concurrent users are involved
NoUsers ==
    /\ heap = <<>>
    /\ executors = <<>>
    /\ node_count = <<>>
    /\ access = NoAccess

NoTransport == [kind |-> "none"]

\* no call of the agent HTTP client is involved
NoClient ==
    /\ client_pc = "none"
    /\ transport = NoTransport
    /\ returned = <<>>

\* no VirtualUser record yet
NoUserRecord == [status |-> "none", stats |-> "none"]

\* no linear-scenario executor is involved
NoLinear ==
    /\ should_continue = <<>>
    /\ lin_pc = "none"
    /\ step_index = 0
    /\ test_steps = <<>>
    /\ lin_calls = <<>>
    /\ lin_result = "none"
    /\ lin_user = NoUserRecord
    /\ lin_end_time = "none"

\* no message generation is involved
NoMessage ==
    /\ message_strategy = <<>>
    /\ history_len = 0
    /\ messages = <<>>

\* no extraction into the user context is followed
NoE2E ==
    /\ extraction = <<>>
    /\ agent_reply = <<>>
    /\ context_fields = <<>>

NoMore == NoPolicy /\ NoUsers /\ NoClient /\ NoLinear /\ NoMessage /\ NoE2E

\* the column defaults of Conversation.total_turns, task_generated, task_id
NoFinal == [total_turns |-> 0, task_generated |-> FALSE, task_id |-> 0]

NoCheck == [turns |-> 0, elapsed |-> 0, detected |-> FALSE, custom |-> "none",
            result |-> FALSE]

\* no conversation is involved
NoDialog ==
    /\ strategy = <<>>
    /\ conv_pc = "none"
    /\ conv_status = "none"
    /\ conv_saved = "none"
    /\ turn_count = 0
    /\ elapsed = 0
    /\ turns = <<>>
    /\ dialog_history = <<>>
    /\ conv_result = "none"
    /\ last_send = "none"
    /\ last_check = NoCheck
    /\ conv_final = NoFinal

\* no call of StateMachine.transition is recorded
NoCalls == sm_calls = <<>>

\* NodeStatus
PENDING == "pending"
RUNNING == "running"
SUCCESS == "success"
FAILED == "failed"
SKIPPED == "skipped"

\* the values the node_type column takes: the five types of _execute_node,
\* the empty value (defaulted to action) and a type the dispatch does not know
NodeTypeValues == {"start", "end", "action", "assertion", "condition", "", "other"}

NoLast == [node |-> 0, kind |-> "none", how |-> "none"]

\* the constructor of NodeDAGExecutor, for the node list ns
ExecInit(ns) ==
    /\ nodes = ns
    /\ exec_pc = "start"
    /\ node_states = <<>>
    /\ execution_order = <<>>
    /\ cursor = 0
    /\ events = <<>>
    /\ agent_calls = <<>>
    /\ user_context = {}
    /\ node_executions = <<>>
    /\ user_execution = "none"
    /\ end_time = "none"
    /\ run_result = "none"
    /\ last = NoLast

\* ------------------------------------------------------------------------
\* NodeDAGExecutor
\* ------------------------------------------------------------------------
Event(type, node) == [type |-> type, node |-> node]

\* _send_event: the callback is invoked; an exception of the callback is
\* logged and dropped, so the only effect is the event handed over
_send_event(evs, type, node) == Append(evs, Event(type, node))

\* _check_dependencies: false iff a dependency is recorded failed or skipped;
\* a dependency without a recorded status counts as pending
DepStatus(states, dep_id) ==
    IF dep_id \in DOMAIN states THEN states[dep_id] ELSE PENDING

\* (mutant of _check_dependencies: a skipped dependency does not block)
_check_dependencies_FailedOnly(ns, states, node_id) ==
    \A dep_id \in ns[node_id] : DepStatus(states, dep_id) # FAILED

\* (mutant of _check_dependencies: every dependency must have succeeded)
_check_dependencies_SuccessOnly(ns, states, node_id) ==
    \A dep_id \in ns[node_id] : DepStatus(states, dep_id) = SUCCESS

_check_dependencies(ns, states, node_id) ==
    \A dep_id \in ns[node_id] : DepStatus(states, dep_id) \notin {FAILED, SKIPPED}

\* _evaluate_condition: eval of the expression gives a true value, a false
\* value or raises; the except branch returns True
_evaluate_condition(ev) == IF ev = "error" THEN TRUE ELSE ev = "true"

\* node_type = (node.node_type or "").lower(); if not node_type: "action"
NodeTypeOf(t) == IF t = "" THEN "action" ELSE t

NodeExec(status, error) == [status |-> status, error |-> error]

Record(execs, node_id, rec) ==
    [i \in (DOMAIN execs) \cup {node_id} |-> IF i = node_id THEN rec ELSE execs[i]]

\* run, steps 1-3: create the user execution record, set every node to
\* pending, sort; returns False when the record cannot be created or the sort
\* gives an empty order
RunBegin ==
    /\ exec_pc = "start"
    /\ \E createOk \in BOOLEAN :
        IF ~createOk
        THEN /\ exec_pc' = "done"
             /\ run_result' = "false"
             /\ end_time' = "set"
             /\ UNCHANGED <<node_states, execution_order, cursor, user_execution>>
        ELSE LET order == _topological_sort(nodes) IN
             /\ user_execution' = RUNNING
             /\ node_states' = [i \in 1..Len(nodes) |-> PENDING]
             /\ execution_order' = order
             /\ IF order = <<>>
                THEN /\ exec_pc' = "done"
                     /\ run_result' = "false"
                     /\ end_time' = "set"
                     /\ cursor' = 0
                ELSE /\ exec_pc' = "loop"
                     /\ cursor' = 1
                     /\ UNCHANGED <<run_result, end_time>>
    /\ UNCHANGED <<nodes, events, agent_calls, user_context, node_executions, last>>
    /\ UNCHANGED <<run_vars, dialog_vars, sm_calls, more_vars>>

\* (mutant of ActionExcept: the handler records the exception but leaves the
\* node running)
ActionExcept_LeavesRunning(node_id, evs) ==
    /\ node_states' = [node_states EXCEPT ![node_id] = RUNNING]
    /\ node_executions' = Record(node_executions, node_id, NodeExec(RUNNING, "exception"))
    /\ events' = _send_event(evs, "node_failed", node_id)

\* the except branch of _execute_action_node, evs being the events sent so far
ActionExcept(node_id, evs) ==
    /\ node_states' = [node_states EXCEPT ![node_id] = FAILED]
    /\ node_executions' = Record(node_executions, node_id, NodeExec(FAILED, "exception"))
    /\ events' = _send_event(evs, "node_failed", node_id)

\* the body of _execute_assertion_node for the outcome ev of the evaluation
\* of the condition ("raise": an exception outside _evaluate_condition)
AssertionBody(node_id, ev) ==
    IF ev = "raise"
    THEN /\ node_states' = [node_states EXCEPT ![node_id] = FAILED]
         /\ node_executions' = Record(node_executions, node_id, NodeExec(FAILED, "exception"))
         /\ events' = _send_event(events, "node_started", node_id)
    ELSE IF _evaluate_condition(ev)
    THEN /\ node_states' = [node_states EXCEPT ![node_id] = SUCCESS]
         /\ node_executions' = Record(node_executions, node_id, NodeExec(SUCCESS, "none"))
         /\ events' = _send_event(_send_event(events, "node_started", node_id),
                                  "node_completed", node_id)
    ELSE /\ node_states' = [node_states EXCEPT ![node_id] = FAILED]
         /\ node_executions' = Record(node_executions, node_id, NodeExec(FAILED, "assertion"))
         /\ events' = _send_event(_send_event(events, "node_started", node_id),
                                  "node_failed", node_id)

\* (mutant of NodeAt: the loop walks the order from its end)
NodeAt_Reversed(order, k) == order[Len(order) + 1 - k]

\* for node_id in execution_order: the node of the k-th iteration
NodeAt(order, k) == order[k]

\* one iteration of the for loop of run: the dependency gate, the
\* node_started event and _execute_node up to its first agent call
DispatchNode ==
    /\ exec_pc = "loop"
    /\ cursor <= Len(execution_order)
    /\ LET node_id == NodeAt(execution_order, cursor) IN
       IF ~_check_dependencies(nodes, node_states, node_id)
       THEN /\ node_states' = [node_states EXCEPT ![node_id] = SKIPPED]
            /\ cursor' = cursor + 1
            /\ last' = [node |-> node_id, kind |-> "none", how |-> "skipped"]
            /\ UNCHANGED <<exec_pc, events, agent_calls, node_executions>>
       ELSE \E t \in NodeTypeValues :
            LET node_type == NodeTypeOf(t) IN
            CASE node_type = "start" ->
                   /\ node_states' = [node_states EXCEPT ![node_id] = SUCCESS]
                   /\ node_executions' = Record(node_executions, node_id, NodeExec(SUCCESS, "none"))
                   /\ events' = _send_event(_send_event(events, "node_started", node_id),
                                            "node_completed", node_id)
                   /\ cursor' = cursor + 1
                   /\ last' = [node |-> node_id, kind |-> node_type, how |-> "done"]
                   /\ UNCHANGED <<exec_pc, agent_calls>>
              [] node_type = "end" ->
                   /\ node_states' = [node_states EXCEPT ![node_id] = SUCCESS]
                   /\ node_executions' = Record(node_executions, node_id, NodeExec(SUCCESS, "none"))
                   /\ events' = _send_event(events, "node_started", node_id)
                   /\ cursor' = cursor + 1
                   /\ last' = [node |-> node_id, kind |-> node_type, how |-> "done"]
                   /\ UNCHANGED <<exec_pc, agent_calls>>
              [] node_type = "action" ->
                   \E built \in BOOLEAN :
                     IF built
                     THEN /\ node_states' = [node_states EXCEPT ![node_id] = RUNNING]
                          /\ events' = _send_event(events, "node_started", node_id)
                          /\ agent_calls' = Append(agent_calls, node_id)
                          /\ exec_pc' = "call"
                          /\ last' = [node |-> node_id, kind |-> node_type, how |-> "called"]
                          /\ UNCHANGED <<cursor, node_executions>>
                     ELSE /\ ActionExcept(node_id, _send_event(events, "node_started", node_id))
                          /\ cursor' = cursor + 1
                          /\ last' = [node |-> node_id, kind |-> node_type, how |-> "raise"]
                          /\ UNCHANGED <<exec_pc, agent_calls>>
              [] node_type \in {"assertion", "condition"} ->
                   \E ev \in {"true", "false", "error", "raise"} :
                     /\ AssertionBody(node_id, ev)
                     /\ cursor' = cursor + 1
                     /\ last' = [node |-> node_id, kind |-> node_type, how |-> ev]
                     /\ UNCHANGED <<exec_pc, agent_calls>>
              [] OTHER ->
                   /\ events' = _send_event(events, "node_started", node_id)
                   /\ cursor' = cursor + 1
                   /\ last' = [node |-> node_id, kind |-> "other", how |-> "unknown"]
                   /\ UNCHANGED <<exec_pc, node_states, agent_calls, node_executions>>
    /\ UNCHANGED <<nodes, execution_order, user_context, user_execution,
                   end_time, run_result>>
    /\ UNCHANGED <<run_vars, dialog_vars, sm_calls, more_vars>>

\* _execute_action_node from the return of call_agent on: res is what the call
\* gave ("ok": success with a body, "empty": success with an empty body,
\* "fail": success=False, "raise": an exception at or after the call)
AgentReturnExec ==
    /\ exec_pc = "call"
    /\ LET node_id == NodeAt(execution_order, cursor) IN
       \E res \in {"ok", "empty", "fail", "raise"} :
         /\ CASE res = "ok" ->
                   /\ node_states' = [node_states EXCEPT ![node_id] = SUCCESS]
                   /\ node_executions' = Record(node_executions, node_id, NodeExec(SUCCESS, "none"))
                   /\ \E extracted \in BOOLEAN :
                        user_context' = IF extracted THEN user_context \cup {node_id}
                                        ELSE user_context
                   /\ events' = _send_event(events, "node_completed", node_id)
              [] res = "empty" ->
                   /\ node_states' = [node_states EXCEPT ![node_id] = FAILED]
                   /\ node_executions' = Record(node_executions, node_id, NodeExec(FAILED, "none"))
                   /\ events' = _send_event(events, "node_failed", node_id)
                   /\ UNCHANGED user_context
              [] res = "fail" ->
                   /\ node_states' = [node_states EXCEPT ![node_id] = FAILED]
                   /\ node_executions' = Record(node_executions, node_id, NodeExec(FAILED, "error_msg"))
                   /\ events' = _send_event(events, "node_failed", node_id)
                   /\ UNCHANGED user_context
              [] res = "raise" ->
                   /\ ActionExcept(node_id, events)
                   /\ UNCHANGED user_context
         /\ last' = [node |-> node_id, kind |-> "action", how |-> res]
    /\ cursor' = cursor + 1
    /\ exec_pc' = "loop"
    /\ UNCHANGED <<nodes, execution_order, agent_calls, user_execution,
                   end_time, run_result>>

\* the return of call_agent when the values of the user context are not
\* followed
AgentReturn ==
    /\ AgentReturnExec
    /\ UNCHANGED <<run_vars, dialog_vars, sm_calls, more_vars>>

\* run, step 5 and the return: _finalize_user(success=True).  The record is
\* updated unless the database raises; the user_completed event needs
\* end_time, which run sets only in its finally clause, so computing the
\* duration raises and the event is not sent.
RunFinalize ==
    /\ exec_pc = "loop"
    /\ cursor > Len(execution_order)
    /\ \E dbOk \in BOOLEAN :
         /\ user_execution' = IF dbOk THEN SUCCESS ELSE user_execution
         /\ events' = IF dbOk /\ end_time # "none"
                      THEN _send_event(events, "user_completed", 0)
                      ELSE events
    /\ run_result' = "true"
    /\ end_time' = "set"
    /\ exec_pc' = "done"
    /\ UNCHANGED <<nodes, node_states, execution_order, cursor, agent_calls,
                   user_context, node_executions, last>>
    /\ UNCHANGED <<run_vars, dialog_vars, sm_calls, more_vars>>


\* ------------------------------------------------------------------------
\* StateMachine (core/state_machine.py)
\* ------------------------------------------------------------------------
\* StateMachine.transitions
transitions(st) ==
    CASE st = "idle" -> {"running", "failed"}
      [] st = "running" -> {"paused", "completed", "failed", "cancelled"}
      [] st = "paused" -> {"running", "cancelled"}
      [] OTHER -> {}

\* (mutant of can_transition: the adjacency table is not consulted)
can_transition_Always(st, new_state) == TRUE

\* StateMachine.can_transition
can_transition(st, new_state) == new_state \in transitions(st)

\* StateMachine.transition: the state after the call
transition(st, new_state) == IF can_transition(st, new_state) THEN new_state ELSE st

\* ------------------------------------------------------------------------
\* The run controllers: TestOrchestrator._run_users (linear scenarios),
\* TestOrchestrator._run_users_node_based (node DAG scenarios) and
\* SmartTestOrchestrator.run_multi_turn_test (multi-turn dialogs)
\* ------------------------------------------------------------------------
\* settings.DEFAULT_CONCURRENCY
DEFAULT_CONCURRENCY == 2

Users == 1..total_users

Min(a, b) == IF a < b THEN a ELSE b
Max(a, b) == IF a > b THEN a ELSE b

Count(res, v) == Cardinality({u \in DOMAIN res : res[u] = v})

RunningUsers == {u \in DOMAIN task : task[u] = "running"}

\* the size of the user semaphore of each controller
SemaphoreSize(m, users, conc) ==
    IF m = "node" THEN Max(1, Min(users, DEFAULT_CONCURRENCY)) ELSE conc

\* the state before a run is started: no executor object is modelled here,
\* a user task's run is its outcome
NoExecutor ==
    /\ nodes = <<>>
    /\ exec_pc = "none"
    /\ node_states = <<>>
    /\ execution_order = <<>>
    /\ cursor = 0
    /\ events = <<>>
    /\ agent_calls = <<>>
    /\ user_context = {}
    /\ node_executions = <<>>
    /\ user_execution = "none"
    /\ end_time = "none"
    /\ run_result = "none"
    /\ last = NoLast

\* a run as submitted: the node-DAG run has its TestRun record (pending,
\* created by create_test_run), the linear run gets its record in start_test,
\* the multi-turn run is started with a fresh id that may or may not name a
\* record
InitRun ==
    /\ NoExecutor
    /\ NoDialog
    /\ NoCalls
    /\ NoMore
    /\ mode \in {"node", "linear", "multi"}
    /\ total_users \in 0..MaxUsers
    /\ concurrency \in IF mode = "node" THEN {DEFAULT_CONCURRENCY} ELSE 0..MaxConcurrency
    /\ ctl_pc = "idle"
    /\ limit = 0
    /\ semaphore = 0
    /\ task = <<>>
    /\ results = <<>>
    /\ run_status \in CASE mode = "node" -> {"pending"}
                        [] mode = "linear" -> {"absent"}
                        [] OTHER -> {"absent", "pending"}
    /\ success_users = 0
    /\ failed_users = 0
    /\ progress = 0
    /\ error_message = "none"
    /\ sm_state = "idle"

\* routes.start_test_run / TestOrchestrator.start_test /
\* multi_turn.start_multi_turn_test: mark the run running and spawn the
\* controller coroutine
StartRun ==
    /\ ctl_pc = "idle"
    /\ ctl_pc' = "started"
    /\ run_status' = IF mode \in {"node", "linear"} THEN "running" ELSE run_status
    /\ sm_state' = IF mode = "linear" THEN transition(sm_state, "running") ELSE sm_state
    /\ UNCHANGED <<mode, total_users, concurrency, limit, semaphore, task, results,
                   success_users, failed_users, progress, error_message>>
    /\ UNCHANGED <<exec_vars, dialog_vars, sm_calls, more_vars>>

\* the except Exception branch of _run_users.  self.test_run is the record
\* start_test created: it is None for a run started through start_test_run,
\* and nothing is persisted then
RunUsersExcept(m, status) == IF m = "linear" THEN "failed" ELSE status

\* the except branch of run_multi_turn_test: the record, if any, is failed
MultiTurnExcept(status) == IF status = "absent" THEN status ELSE "failed"

\* the controller up to the creation of the user tasks.  ok: the scenario and
\* the TestRun record are found (node), the semaphore can be built (linear),
\* the node strategies and user configs can be built (multi)
SpawnUsers ==
    /\ ctl_pc = "started"
    /\ \E ok \in BOOLEAN :
         IF mode \in {"node", "linear"} /\ (~ok \/ (mode = "node" /\ total_users <= 0))
         THEN /\ run_status' = RunUsersExcept(mode, run_status)
              /\ error_message' = IF mode = "linear" THEN "exception" ELSE error_message
              /\ sm_state' = transition(sm_state, "failed")
              /\ ctl_pc' = "error"
              /\ UNCHANGED <<limit, semaphore, task, results>>
         ELSE IF mode = "multi" /\ ~ok
         THEN /\ run_status' = MultiTurnExcept(run_status)
              /\ ctl_pc' = "error"
              /\ UNCHANGED <<limit, semaphore, task, results, error_message, sm_state>>
         ELSE /\ limit' = SemaphoreSize(mode, total_users, concurrency)
              /\ semaphore' = SemaphoreSize(mode, total_users, concurrency)
              /\ task' = [u \in Users |-> "waiting"]
              /\ results' = [u \in Users |-> "none"]
              /\ ctl_pc' = "gather"
              /\ UNCHANGED <<run_status, error_message, sm_state>>
    /\ UNCHANGED <<mode, total_users, concurrency, success_users, failed_users, progress>>
    /\ UNCHANGED <<exec_vars, dialog_vars, sm_calls, more_vars>>

\* (mutant of SemaphoreAcquire: the permit count is not tested)
SemaphoreAcquire_NoWait(sem) == TRUE

\* asyncio.Semaphore.acquire does not block
SemaphoreAcquire(sem) == sem > 0

\* async with user_semaphore: a user task takes a permit and starts its
\* executor
UserAcquire ==
    /\ ctl_pc = "gather"
    /\ \E u \in Users :
         /\ task[u] = "waiting"
         /\ SemaphoreAcquire(semaphore)
         /\ task' = [task EXCEPT ![u] = "running"]
         /\ semaphore' = semaphore - 1
    /\ UNCHANGED <<mode, total_users, concurrency, ctl_pc, limit, results, run_status,
                   success_users, failed_users, progress, error_message, sm_state>>
    /\ UNCHANGED <<exec_vars, dialog_vars, sm_calls, more_vars>>

\* (mutant of ReleasePermit: a task that raises keeps its permit)
ReleasePermit_NotOnException(sem, r) == IF r = "exception" THEN sem ELSE sem + 1

\* async with user_semaphore: __aexit__ releases the permit however the
\* block is left, r being what the executor returned or that it raised
ReleasePermit(sem, r) == sem + 1

\* the executor of a user task returns True or False, or the task raises;
\* leaving the async with block releases the permit
UserReturn ==
    /\ ctl_pc = "gather"
    /\ \E u \in Users : \E r \in {"true", "false", "exception"} :
         /\ task[u] = "running"
         /\ task' = [task EXCEPT ![u] = "done"]
         /\ results' = [results EXCEPT ![u] = r]
         /\ semaphore' = ReleasePermit(semaphore, r)
    /\ UNCHANGED <<mode, total_users, concurrency, ctl_pc, limit, run_status,
                   success_users, failed_users, progress, error_message, sm_state>>
    /\ UNCHANGED <<exec_vars, dialog_vars, sm_calls, more_vars>>

AllResolved == \A u \in Users : task[u] = "done"

\* (mutant of FailedCount: a task that raised is not counted)
FailedCount_FalseOnly(m, res) == Count(res, "false")

\* failed = sum(...): the node-DAG controller counts False and exceptions,
\* the other two count False only
FailedCount(m, res) ==
    IF m = "node" THEN Count(res, "false") + Count(res, "exception")
    ELSE Count(res, "false")

\* the status written after the gather: only the node-DAG controller looks
\* at the failed count
FinalStatus(m, failed) ==
    IF m = "node" THEN (IF failed = 0 THEN "done" ELSE "failed") ELSE "done"

\* gather has returned: count the outcomes and update the TestRun record
Aggregate ==
    /\ ctl_pc = "gather"
    /\ AllResolved
    /\ LET successful == Count(results, "true")
           failed == FailedCount(mode, results)
       IN CASE mode = "node" ->
                 /\ success_users' = successful
                 /\ failed_users' = failed
                 /\ progress' = ((successful + failed) * 100) \div total_users
                 /\ run_status' = FinalStatus(mode, failed)
                 /\ UNCHANGED sm_state
            [] mode = "linear" ->
                 /\ success_users' = successful
                 /\ failed_users' = failed
                 /\ run_status' = FinalStatus(mode, failed)
                 /\ sm_state' = transition(sm_state, "completed")
                 /\ UNCHANGED progress
            [] OTHER ->
                 IF run_status = "absent"
                 THEN UNCHANGED <<success_users, failed_users, progress, run_status, sm_state>>
                 ELSE /\ run_status' = FinalStatus(mode, failed)
                      /\ success_users' = successful
                      /\ failed_users' = failed
                      /\ progress' = 100
                      /\ UNCHANGED sm_state
    /\ ctl_pc' = "aggregated"
    /\ UNCHANGED <<mode, total_users, concurrency, limit, semaphore, task, results,
                   error_message>>
    /\ UNCHANGED <<exec_vars, dialog_vars, sm_calls, more_vars>>

\* asyncio.wait_for(..., timeout=max_wait_time) of the linear controller
\* expires: the gather and the user tasks it waits for are cancelled (each
\* leaves its async with block), the run is marked failed
GatherTimeout ==
    /\ ctl_pc = "gather"
    /\ mode = "linear"
    /\ ~AllResolved
    /\ task' = [u \in Users |-> IF task[u] = "done" THEN "done" ELSE "cancelled"]
    /\ semaphore' = limit
    /\ run_status' = "failed"
    /\ error_message' = "Test execution timeout"
    /\ sm_state' = transition(sm_state, "failed")
    /\ ctl_pc' = "timeout"
    /\ UNCHANGED <<mode, total_users, concurrency, limit, results, success_users,
                   failed_users, progress>>
    /\ UNCHANGED <<exec_vars, dialog_vars, sm_calls, more_vars>>

NextRun == StartRun \/ SpawnUsers \/ UserAcquire \/ UserReturn \/ Aggregate
              \/ GatherTimeout

SpecRun == InitRun /\ [][NextRun]_vars

\* the controller coroutine has returned
ControllerReturned == ctl_pc \in {"aggregated", "error", "timeout"}

\* ------------------------------------------------------------------------
\* The executor on its own: one virtual user on one scenario
\* ------------------------------------------------------------------------
\* no run controller is involved
NoController ==
    /\ mode = "none"
    /\ total_users = 0
    /\ concurrency = 0
    /\ ctl_pc = "none"
    /\ limit = 0
    /\ semaphore = 0
    /\ task = <<>>
    /\ results = <<>>
    /\ run_status = "absent"
    /\ success_users = 0
    /\ failed_users = 0
    /\ progress = 0
    /\ error_message = "none"
    /\ sm_state = "idle"

InitExec ==
    /\ \E ns \in ExecScenarios : ExecInit(ns)
    /\ NoController
    /\ NoDialog
    /\ NoCalls
    /\ NoMore

NextExec == RunBegin \/ DispatchNode \/ AgentReturn \/ RunFinalize

SpecExec == InitExec /\ [][NextExec]_vars

\* ------------------------------------------------------------------------
\* _topological_sort on its own, over every node list of TopoScenarios
\* ------------------------------------------------------------------------
InitTopo ==
    /\ \E ns \in TopoScenarios : ExecInit(ns)
    /\ NoController
    /\ NoDialog
    /\ NoCalls
    /\ NoMore

TopoSort ==
    /\ exec_pc = "start"
    /\ execution_order' = _topological_sort(nodes)
    /\ exec_pc' = "sorted"
    /\ UNCHANGED <<nodes, node_states, cursor, events, agent_calls, user_context,
                   node_executions, user_execution, end_time, run_result, last>>
    /\ UNCHANGED <<run_vars, dialog_vars, sm_calls, more_vars>>

NextTopo == TopoSort

SpecTopo == InitTopo /\ [][NextTopo]_vars

\* ------------------------------------------------------------------------
\* Properties of the topological sort
\* ------------------------------------------------------------------------
IsPermutationOfIds(order, ns) ==
    /\ Len(order) = Len(ns)
    /\ \A i \in 1..Len(ns) : Cardinality({k \in DOMAIN order : order[k] = i}) = 1

RespectsDependencies(order, ns) ==
    \A i \in 1..Len(ns) : \A d \in RealDeps(ns, i) :
        PosIn(order, d) < PosIn(order, i)

\* C1: for every acyclic node graph the order returned by _topological_sort
\* contains every node id exactly once and places no node before any of its
\* dependencies.
C1_TopoOrder ==
    (exec_pc = "sorted" /\ ~HasCycle(nodes)) =>
        /\ IsPermutationOfIds(execution_order, nodes)
        /\ RespectsDependencies(execution_order, nodes)

\* an acyclic graph of three nodes with a node of two dependencies was sorted
C1_Witness ==
    /\ exec_pc = "sorted"
    /\ ~HasCycle(nodes)
    /\ Len(nodes) = 3
    /\ \E i \in 1..3 : Cardinality(RealDeps(nodes, i)) = 2
    /\ Len(execution_order) = 3


\* ------------------------------------------------------------------------
\* Properties of one user's traversal
\* ------------------------------------------------------------------------
AllIds == 1..Len(nodes)

\* node i went through the dependency gate and was handed to _execute_node
Executed(i) == \E k \in DOMAIN events : events[k] = Event("node_started", i)

\* nothing of node i's execution happened
Untouched(i) ==
    /\ \A k \in DOMAIN events : events[k].node # i
    /\ i \notin Range(agent_calls)
    /\ i \notin user_context
    /\ i \notin DOMAIN node_executions

StatusOf(i) == DepStatus(node_states, i)

TraversalDone == exec_pc = "done" /\ run_result = "true"

\* C2: when the node graph contains a dependency cycle, run aborts before
\* any node leaves pending: no node is running or finished, no agent call is
\* made, no event is emitted, and run returns False.
C2_CycleAborts ==
    HasCycle(nodes) =>
        /\ \A i \in DOMAIN node_states : node_states[i] = PENDING
        /\ agent_calls = <<>>
        /\ events = <<>>
        /\ exec_pc \in {"start", "done"}
        /\ exec_pc = "done" => run_result = "false"

\* a run on a cyclic graph got past the creation of its record and returned
C2_Witness ==
    /\ HasCycle(nodes)
    /\ Len(nodes) = 3
    /\ exec_pc = "done"
    /\ user_execution = RUNNING
    /\ DOMAIN node_states = 1..3

\* C3: if A depends on B and B is failed, A is never executed (no agent call,
\* no event, no record, no change of the context), A ends skipped, and so
\* does every node depending directly or transitively on A.
C3_CascadingSkip ==
    \A a \in AllIds : \A b \in RealDeps(nodes, a) :
        StatusOf(b) = FAILED =>
            /\ Untouched(a)
            /\ StatusOf(a) \in {PENDING, SKIPPED}
            /\ TraversalDone => StatusOf(a) = SKIPPED
            /\ \A d \in AllIds : a \in Ancestors(nodes, d) =>
                  /\ Untouched(d)
                  /\ StatusOf(d) \in {PENDING, SKIPPED}
                  /\ TraversalDone => StatusOf(d) = SKIPPED

\* a chain of three nodes ran to the end with its head failed and the two
\* nodes behind it skipped
C3_Witness ==
    /\ TraversalDone
    /\ Len(nodes) = 3
    /\ \E b, a, d \in 1..3 :
          /\ b \in nodes[a] /\ a \in nodes[d] /\ b # d
          /\ node_states[b] = FAILED
          /\ node_states[a] = SKIPPED
          /\ node_states[d] = SKIPPED

HasExceptionRecord(i) ==
    i \in DOMAIN node_executions /\ node_executions[i].error = "exception"

\* C5: an exception raised inside a node's execution leaves the node failed
\* with the exception text, does not abort the user run, and the for loop
\* moves on to the next node of the order.
C5_NodeExceptionIsolated ==
    /\ \A i \in AllIds : HasExceptionRecord(i) =>
          /\ node_states[i] = FAILED
          /\ node_executions[i].status = FAILED
          /\ run_result # "false"
          /\ exec_pc = "done" => (run_result = "true" /\ cursor = Len(execution_order) + 1)
    /\ last.how = "raise" =>
          /\ HasExceptionRecord(last.node)
          /\ exec_pc \in {"loop", "done"}
          /\ cursor = PosIn(execution_order, last.node) + 1

\* a node raised, and a node later in the order was then executed and
\* succeeded, and the run returned True
C5_Witness ==
    /\ TraversalDone
    /\ \E i, j \in AllIds :
          /\ HasExceptionRecord(i)
          /\ PosIn(execution_order, i) < PosIn(execution_order, j)
          /\ Executed(j)
          /\ node_states[j] = SUCCESS

\* C6: run returns False only when the graph has a cycle or the user's
\* execution record could not be created; otherwise it returns True.
C6_AbortOnlyOnCycleOrCreateFailure ==
    (exec_pc = "done" /\ run_result = "false") =>
        (HasCycle(nodes) \/ user_execution = "none")


\* ------------------------------------------------------------------------
\* Properties of the run controllers
\* ------------------------------------------------------------------------
\* C7: in every fan-out, never more user executions are running than the
\* semaphore was created for (the configured concurrency; for the node-DAG
\* controller max(1, min(total_users, DEFAULT_CONCURRENCY))), and the permits
\* left are exactly those not held by a running user, so a waiting user
\* starts only once a permit has been released.
C7_ConcurrencyBound ==
    ctl_pc \in {"gather", "aggregated", "timeout"} =>
        /\ Cardinality(RunningUsers) <= limit
        /\ semaphore = limit - Cardinality(RunningUsers)
        /\ mode \in {"linear", "multi"} => Cardinality(RunningUsers) <= concurrency
        /\ mode = "node" => Cardinality(RunningUsers) <= DEFAULT_CONCURRENCY

\* the bound is binding: every permit is held while a user waits, after an
\* earlier user has finished and released its permit
C7_Witness ==
    /\ ctl_pc = "gather"
    /\ limit = 2
    /\ Cardinality(RunningUsers) = limit
    /\ semaphore = 0
    /\ \E u \in Users : task[u] = "waiting"
    /\ \E u \in Users : task[u] = "done"

\* C8: when the user tasks of a node-DAG run have all resolved and the
\* controller has aggregated, success_users is the number of tasks that
\* returned True, failed_users the number that returned False or raised,
\* their sum is total_users and progress is 100.
C8_AggregationExact ==
    (mode = "node" /\ ctl_pc = "aggregated") =>
        /\ success_users = Count(results, "true")
        /\ failed_users = Count(results, "false") + Count(results, "exception")
        /\ success_users + failed_users = total_users
        /\ progress = 100

\* a node-DAG run aggregated a successful, a failed and a raising user task
C8_Witness ==
    /\ mode = "node"
    /\ ctl_pc = "aggregated"
    /\ total_users = 3
    /\ Count(results, "true") = 1
    /\ Count(results, "false") = 1
    /\ Count(results, "exception") = 1
    /\ failed_users = 2

\* C9: after the user tasks of a run have resolved, the persisted status of
\* the run is done when failed_users = 0 and failed otherwise, in each of
\* the three controllers.
C9_StatusFollowsFailedCount ==
    (ctl_pc = "aggregated" /\ run_status # "absent") =>
        run_status = (IF failed_users = 0 THEN "done" ELSE "failed")

\* C10: every started run that has a TestRun record ends in a terminal
\* persisted status: once the controller coroutine has returned, the status
\* is done, failed or cancelled.
C10_RunEndsTerminal ==
    (ControllerReturned /\ run_status # "absent") =>
        run_status \in {"done", "failed", "cancelled"}

\* ------------------------------------------------------------------------
\* StateMachine on its own: any sequence of transition calls
\* ------------------------------------------------------------------------
MaxCalls == 3

\* TestState
TestStateValues == {"idle", "running", "paused", "completed", "failed", "cancelled"}

\* what a caller may pass to transition: a TestState, or a value that is none
TransitionArgs == TestStateValues \cup {"unknown"}

\* StateMachine.__init__(initial_state)
InitSM ==
    /\ NoExecutor
    /\ NoDialog
    /\ NoCalls
    /\ NoMore
    /\ mode = "none"
    /\ total_users = 0
    /\ concurrency = 0
    /\ ctl_pc = "none"
    /\ limit = 0
    /\ semaphore = 0
    /\ task = <<>>
    /\ results = <<>>
    /\ run_status = "absent"
    /\ success_users = 0
    /\ failed_users = 0
    /\ progress = 0
    /\ error_message = "none"
    /\ sm_state \in TestStateValues

\* one call of StateMachine.transition(new_state), with what it returned
CallTransition ==
    /\ Len(sm_calls) < MaxCalls
    /\ \E new_state \in TransitionArgs :
         /\ sm_state' = transition(sm_state, new_state)
         /\ sm_calls' = Append(sm_calls, [from |-> sm_state, to |-> new_state,
                                          returned |-> can_transition(sm_state, new_state),
                                          after |-> transition(sm_state, new_state)])
    /\ UNCHANGED <<mode, total_users, concurrency, ctl_pc, limit, semaphore, task,
                   results, run_status, success_users, failed_users, progress,
                   error_message>>
    /\ UNCHANGED <<exec_vars, dialog_vars, more_vars>>

NextSM == CallTransition

SpecSM == InitSM /\ [][NextSM]_vars

TerminalTestStates == {"completed", "failed", "cancelled"}

\* C12: a call transition(s) changes the state to s and returns true exactly
\* when s is in the adjacency-table entry of the current state; otherwise the
\* state is unchanged and the call returns false.  From completed, failed and
\* cancelled no call is accepted, whatever calls came before.
C12_GuardedTransitions ==
    \A i \in DOMAIN sm_calls :
        LET c == sm_calls[i] IN
        /\ c.returned <=> (c.to \in transitions(c.from))
        /\ c.returned => c.after = c.to
        /\ ~c.returned => c.after = c.from
        /\ c.from \in TerminalTestStates => (~c.returned /\ c.after = c.from)

\* two accepted calls reach completed, and a call made there is rejected
C12_Witness ==
    /\ Len(sm_calls) = 3
    /\ sm_calls[1].from = "idle" /\ sm_calls[1].returned
    /\ sm_calls[2].to = "completed" /\ sm_calls[2].returned
    /\ sm_calls[3].to = "running" /\ ~sm_calls[3].returned
    /\ sm_state = "completed"

\* ------------------------------------------------------------------------
\* The run controllers with the stop and cancel operations
\* ------------------------------------------------------------------------
\* routes.stop_test_run: the node_based TestRun record, if there is one, is
\* marked failed, whatever its status is and whatever the controller is doing
StopRun ==
    /\ mode \in {"node", "multi"}
    /\ run_status # "absent"
    /\ run_status' = "failed"
    /\ UNCHANGED <<mode, total_users, concurrency, ctl_pc, limit, semaphore, task,
                   results, success_users, failed_users, progress, error_message,
                   sm_state>>
    /\ UNCHANGED <<exec_vars, dialog_vars, sm_calls, more_vars>>

\* TestOrchestrator.cancel_test: the TestRun record of a linear run, if there
\* is one, is marked cancelled; the user tasks and the state machine are not
\* touched
CancelTest ==
    /\ mode = "linear"
    /\ run_status # "absent"
    /\ run_status' = "cancelled"
    /\ UNCHANGED <<mode, total_users, concurrency, ctl_pc, limit, semaphore, task,
                   results, success_users, failed_users, progress, error_message,
                   sm_state>>
    /\ UNCHANGED <<exec_vars, dialog_vars, sm_calls, more_vars>>

NextApi == NextRun \/ StopRun \/ CancelTest

SpecApi == InitRun /\ [][NextApi]_vars

TerminalRunStatus == {"done", "failed", "cancelled"}

\* C11: once the persisted status of a TestRun is done, failed or cancelled,
\* no step changes it; a run stopped or cancelled while its user tasks are in
\* flight keeps that status when the tasks resolve.
C11_TerminalStatusIsFinal ==
    [][(run_status \in TerminalRunStatus) => (run_status' = run_status)]_vars

\* ------------------------------------------------------------------------
\* NodeStrategy (config/node_strategy.py) and ConversationExecutor
\* (core/conversation_executor.py): one multi-turn dialog of one user
\* ------------------------------------------------------------------------
MaxTurns == 3
MaxTimeout == 1

\* the elapsed time can exceed the largest timeout
MaxElapsed == MaxTimeout + 1

\* what call_agent gives as the body of a successful call: a plain reply, a
\* reply carrying a task ({"task_id": .., "message": ..}), or None / {}
ResponseValues == {"reply", "task", "empty"}

\* a dict as the detectors see it: its keys, and str() of it as the sequence
\* of the key tokens it prints, nested dicts included
ResponseKeys(r) ==
    CASE r = "task" -> <<"task_id", "message">>
      [] r = "reply" -> <<"message">>
      [] OTHER -> <<>>

ResponseDict(r) == [keys |-> Range(ResponseKeys(r)), text |-> ResponseKeys(r)]

\* an entry of dialog_history: {"turn", "user_message", "agent_response",
\* "task_detected"}
HistoryEntry(turn, r, task_detected) ==
    [turn |-> turn, agent_response |-> r, task_detected |-> task_detected]

EntryDict(e) ==
    [keys |-> {"turn", "user_message", "agent_response", "task_detected"},
     text |-> <<"turn", "user_message", "agent_response">>
              \o ResponseKeys(e.agent_response) \o <<"task_detected">>]

\* TaskDetectionStrategy: keyword "task_id" or "task"; regex "task_id" (search) or
\* "^\{'task_id'" (start) or no pattern; custom code "'task_id' in response"
\* (key), code that raises (broken) or no code; any other type
DetectionValues ==
    { [type |-> "keyword", arg |-> "task_id"],
      [type |-> "keyword", arg |-> "task"],
      [type |-> "regex", arg |-> "search"],
      [type |-> "regex", arg |-> "start"],
      [type |-> "regex", arg |-> "none"],
      [type |-> "custom", arg |-> "key"],
      [type |-> "custom", arg |-> "broken"],
      [type |-> "ai", arg |-> "none"] }

\* `keyword in text`, for the keywords and the key tokens that occur here
Substring(keyword, token) ==
    \/ token = keyword
    \/ keyword = "task" /\ token \in {"task_id", "task_detected"}

\* _check_by_keyword: keyword.lower() in str(response).lower()
_check_by_keyword(det, d) == \E i \in DOMAIN d.text : Substring(det.arg, d.text[i])

\* _check_by_regex: bool(re.search(pattern, str(response))); an exception
\* (no pattern) gives False
_check_by_regex(det, d) ==
    CASE det.arg = "search" -> \E i \in DOMAIN d.text : d.text[i] = "task_id"
      [] det.arg = "start" -> Len(d.text) > 0 /\ d.text[1] = "task_id"
      [] OTHER -> FALSE

\* _check_by_custom: bool(eval(code, {"response": response})); an exception
\* gives False
_check_by_custom(det, d) == det.arg = "key" /\ "task_id" \in d.keys

_check_task_generated(det, d) ==
    CASE det.type = "keyword" -> _check_by_keyword(det, d)
      [] det.type = "regex" -> _check_by_regex(det, d)
      [] det.type = "custom" -> _check_by_custom(det, d)
      [] OTHER -> FALSE

\* ExitCondition.custom_check_func: absent, code that evaluates, code that
\* cannot be parsed
CustomCheckValues == {"none", "code", "broken"}

\* what eval of the custom check gives: a true value, a false value, or an
\* exception (always, for code that cannot be parsed)
CustomOutcomes(func) ==
    CASE func = "broken" -> {"error"}
      [] func = "code" -> {"true", "false", "error"}
      [] OTHER -> {"none"}

Strategies ==
    [max_turns : 0..MaxTurns, timeout_seconds : 0..MaxTimeout,
     detection : DetectionValues, custom_check_func : CustomCheckValues]

\* (mutant of MaxTurnsReached: the budget may be used up and one more)
MaxTurnsReached_Strict(t, max_turns) == t > max_turns

\* if turns >= self.exit_condition.max_turns
MaxTurnsReached(t, max_turns) == t >= max_turns

\* the custom check of should_continue_dialog: bool(result), and True in the
\* except branch
CustomCheck(ev) == IF ev = "error" THEN TRUE ELSE ev = "true"

\* should_continue_dialog(turns, elapsed_time, last_response), ev being the
\* outcome of the evaluation of the custom check
should_continue_dialog(strat, t, el, d, ev) ==
    IF MaxTurnsReached(t, strat.max_turns) THEN FALSE
    ELSE IF el > strat.timeout_seconds THEN FALSE
    ELSE IF _check_task_generated(strat.detection, d) THEN FALSE
    ELSE IF strat.custom_check_func # "none" THEN CustomCheck(ev)
    ELSE TRUE

\* the custom check is reached by should_continue_dialog
CustomReached(strat, t, el, d) ==
    /\ ~MaxTurnsReached(t, strat.max_turns)
    /\ ~(el > strat.timeout_seconds)
    /\ ~_check_task_generated(strat.detection, d)
    /\ strat.custom_check_func # "none"

InitDialog ==
    /\ NoExecutor
    /\ NoController
    /\ NoCalls
    /\ NoMore
    /\ strategy \in Strategies
    /\ conv_pc = "start"
    /\ conv_status = "none"
    /\ conv_saved = "none"
    /\ turn_count = 0
    /\ elapsed = 0
    /\ turns = <<>>
    /\ dialog_history = <<>>
    /\ conv_result = "none"
    /\ last_send = "none"
    /\ last_check = NoCheck
    /\ conv_final = NoFinal

\* (mutant of ConversationStatusFor: the status is left as it is)
ConversationStatusFor_Ongoing(success) == "ongoing"

\* ConversationStatus.COMPLETED if success else ConversationStatus.FAILED
ConversationStatusFor(success) == IF success THEN "completed" ELSE "failed"

\* _finalize_conversation: the status is set on the conversation object; the
\* rest (reading the turns, db.update) may raise, which is logged and
\* dropped, and the database then keeps the old status
\* the turn number stands for the task id its response carries.  tc and ts
\* are self.turn_count and the recorded turns at the call: total_turns is
\* set from the counter, the task fields from the first recorded turn with
\* task_detected, when the turns can be read
FirstDetected(ts) ==
    IF \E i \in DOMAIN ts : ts[i].task_detected
    THEN ts[CHOOSE i \in DOMAIN ts :
               ts[i].task_detected /\ \A j \in 1..(i - 1) : ~ts[j].task_detected].turn
    ELSE 0

TerminalFields(tc, ts, read) ==
    [total_turns |-> tc,
     task_generated |-> read /\ FirstDetected(ts) # 0,
     task_id |-> IF read THEN FirstDetected(ts) ELSE 0]

_finalize_conversation(success, tc, ts) ==
    /\ conv_status' = ConversationStatusFor(success)
    /\ \E read \in BOOLEAN : \E saved \in {FALSE, read} :
         /\ conv_final' = TerminalFields(tc, ts, read)
         /\ conv_saved' = IF saved THEN ConversationStatusFor(success) ELSE conv_saved

\* execute, step 1: _create_conversation.  When db.create raises, the except
\* branch runs _finalize_conversation on no conversation, which raises
\* inside and changes nothing, and execute returns False
ConvBegin ==
    /\ conv_pc = "start"
    /\ \E createOk \in BOOLEAN :
         IF createOk
         THEN /\ conv_status' = "ongoing"
              /\ conv_saved' = "ongoing"
              /\ conv_pc' = "send"
              /\ UNCHANGED conv_result
         ELSE /\ conv_pc' = "done"
              /\ conv_result' = "false"
              /\ UNCHANGED <<conv_status, conv_saved>>
    /\ UNCHANGED <<strategy, turn_count, elapsed, turns, dialog_history, last_send,
                   last_check, conv_final>>
    /\ UNCHANGED <<exec_vars, run_vars, sm_calls, more_vars>>

\* the progress-event callback returns or raises
CallbackOutcomes == {"ok", "raise"}

\* (mutant of AdvanceTurnCount: a failed agent call does not count as a turn)
AdvanceTurnCount_OnSuccess(tc, res) == IF res = "fail" THEN tc ELSE tc + 1

\* self.turn_count += 1 is the first statement of _send_turn: it runs before
\* the agent call, whatever the outcome res of the call is
AdvanceTurnCount(tc, res) == tc + 1

\* _send_turn, for the initial message and for every later one.  res: the
\* agent call fails ("fail"), gives a body, or something raises before the
\* turn is stored ("raise"); with the turn stored, the event callback is
\* awaited inside the same try block.  An exception is re-raised by
\* _send_turn and execute's except branch makes the conversation FAILED
SendTurn ==
    /\ conv_pc = "send"
    /\ \E res \in ResponseValues \cup {"fail", "raise"} :
         /\ turn_count' = AdvanceTurnCount(turn_count, res)
         /\ CASE res = "fail" ->
                   /\ last_send' = res
                   /\ conv_pc' = "check"
                   /\ UNCHANGED <<turns, dialog_history, conv_status, conv_saved,
                                  conv_result, conv_final>>
              [] res = "raise" ->
                   /\ last_send' = res
                   /\ _finalize_conversation(FALSE, turn_count + 1, turns)
                   /\ conv_result' = "false"
                   /\ conv_pc' = "done"
                   /\ UNCHANGED <<turns, dialog_history>>
              [] OTHER ->
                   LET task_detected ==
                           _check_task_generated(strategy.detection, ResponseDict(res))
                       entry == HistoryEntry(turn_count + 1, res, task_detected)
                   IN /\ turns' = Append(turns, entry)
                      /\ dialog_history' = Append(dialog_history, entry)
                      /\ \E callback \in CallbackOutcomes :
                           IF callback = "raise"
                           THEN /\ last_send' = "callback"
                                /\ _finalize_conversation(FALSE, turn_count + 1,
                                                          Append(turns, entry))
                                /\ conv_result' = "false"
                                /\ conv_pc' = "done"
                           ELSE /\ last_send' = res
                                /\ conv_pc' = "check"
                                /\ UNCHANGED <<conv_status, conv_saved, conv_result,
                                               conv_final>>
    /\ UNCHANGED <<strategy, elapsed, last_check>>
    /\ UNCHANGED <<exec_vars, run_vars, sm_calls, more_vars>>

\* the head of the while loop of execute: should_continue_dialog is asked
\* with the turn count, the elapsed time and the last entry of
\* dialog_history ({} when there is none)
PolicyCheck ==
    /\ conv_pc = "check"
    /\ \E el \in elapsed..MaxElapsed :
       LET d == IF dialog_history = <<>> THEN ResponseDict("empty")
                ELSE EntryDict(dialog_history[Len(dialog_history)])
           reached == CustomReached(strategy, turn_count, el, d)
       IN \E ev \in (IF reached THEN CustomOutcomes(strategy.custom_check_func)
                     ELSE {"none"}) :
            LET go == should_continue_dialog(strategy, turn_count, el, d, ev) IN
            /\ elapsed' = el
            /\ last_check' = [turns |-> turn_count, elapsed |-> el,
                              detected |-> _check_task_generated(strategy.detection, d),
                              custom |-> ev, result |-> go]
            /\ conv_pc' = IF go THEN "send" ELSE "finalize"
    /\ UNCHANGED <<strategy, conv_status, conv_saved, turn_count, turns,
                   dialog_history, conv_result, last_send, conv_final>>
    /\ UNCHANGED <<exec_vars, run_vars, sm_calls, more_vars>>

\* execute, step 4: the loop was left, the conversation is finalized as
\* COMPLETED and execute returns True
ConvFinalize ==
    /\ conv_pc = "finalize"
    /\ _finalize_conversation(TRUE, turn_count, turns)
    /\ conv_result' = "true"
    /\ conv_pc' = "done"
    /\ UNCHANGED <<strategy, turn_count, elapsed, turns, dialog_history, last_send,
                   last_check>>
    /\ UNCHANGED <<exec_vars, run_vars, sm_calls, more_vars>>

NextDialog == ConvBegin \/ SendTurn \/ PolicyCheck \/ ConvFinalize

SpecDialog == InitDialog /\ [][NextDialog]_vars

\* should_continue_dialog has been asked at least once
PolicyAsked == last_check # NoCheck

\* C13: should_continue_dialog returns false whenever turns >= max_turns (so
\* when turns = max_turns exactly) and whenever the elapsed time is strictly
\* greater than timeout_seconds, whatever the last response and the custom
\* check are.
C13_BudgetAndTimeoutStop ==
    PolicyAsked =>
        /\ last_check.turns >= strategy.max_turns => ~last_check.result
        /\ last_check.elapsed > strategy.timeout_seconds => ~last_check.result

\* the turn budget is met exactly, in time, with no task detected and a
\* custom check configured, and the dialog stops
C13_Witness ==
    /\ PolicyAsked
    /\ last_check.turns = strategy.max_turns
    /\ last_check.turns >= 2
    /\ last_check.elapsed <= strategy.timeout_seconds
    /\ ~last_check.detected
    /\ strategy.custom_check_func = "code"
    /\ ~last_check.result
    /\ conv_pc = "finalize"

\* C14: when the custom check of the exit condition fails to evaluate,
\* should_continue_dialog returns false, so that a broken check cannot keep
\* the dialog running.
C14_BrokenCheckStops ==
    (PolicyAsked /\ last_check.custom = "error") => ~last_check.result

\* the turn at which _send_turn detected a task
DetectedTurns == {turns[i].turn : i \in {j \in DOMAIN turns : turns[j].task_detected}}

\* C15: once the agent response of a turn has triggered task detection, no
\* further turn is sent in the conversation, however many turns the budget
\* has left.
C15_NoTurnAfterTaskDetection ==
    \A t \in DetectedTurns : turn_count = t

\* C16: a turn whose agent call fails is recorded with an empty response,
\* the loop goes on to the next policy check instead of being aborted, and a
\* conversation ended by the policy is finalized as COMPLETED.
C16_FailedTurnRecorded ==
    /\ (last_send = "fail" /\ conv_pc = "check") =>
           \E i \in DOMAIN turns :
               turns[i].turn = turn_count /\ turns[i].agent_response = "empty"
    /\ last_send = "fail" => conv_pc \in {"check", "send", "finalize", "done"}
    /\ (last_send = "fail" /\ conv_pc = "done") =>
           (conv_status = "completed" /\ conv_result = "true")

TerminalConversationStatus == {"completed", "failed"}

\* C17: the status of a conversation leaves ONGOING only for COMPLETED or
\* FAILED, it has done so when execute returns, and once it is COMPLETED or
\* FAILED neither the status changes nor is a turn sent or recorded.
C17_ConversationEndsOnce ==
    [][ /\ (conv_status = "ongoing" /\ conv_status' # conv_status) =>
               conv_status' \in TerminalConversationStatus
        /\ (conv_status = "ongoing" /\ conv_pc' = "done") =>
               conv_status' \in TerminalConversationStatus
        /\ (conv_status \in TerminalConversationStatus) =>
               UNCHANGED <<conv_status, turn_count, turns, dialog_history>>
      ]_vars

\* a conversation that sent several turns and recorded one was finalized as
\* FAILED by a raising turn
C17_Witness ==
    /\ conv_pc = "done"
    /\ conv_status = "failed"
    /\ conv_result = "false"
    /\ turn_count >= 2
    /\ Len(turns) >= 1

\* ------------------------------------------------------------------------
\* Node and user-execution outcomes of NodeDAGExecutor
\* ------------------------------------------------------------------------
\* C18: for an assertion or condition node, an expression that evaluates to
\* a false value or whose evaluation raises makes the node failed; an
\* evaluation error never makes the node succeed.
C18_EvaluationErrorFails ==
    (last.kind \in {"assertion", "condition"} /\ last.how \in {"false", "error"}) =>
        /\ node_states[last.node] = FAILED
        /\ node_executions[last.node].status = FAILED

\* C19: a user execution whose record was created has a terminal status
\* (success or failed) once run has returned, whether the traversal
\* completed or was aborted by a cyclic graph; it is not left running.
C19_UserExecutionFinalized ==
    (exec_pc = "done" /\ user_execution # "none") =>
        user_execution \in {SUCCESS, FAILED}

TerminalNodeStatus == {SUCCESS, FAILED, SKIPPED}

\* C20: a node status that is success, failed or skipped is never changed,
\* and when the traversal of an acyclic graph has ended every node is
\* success, failed or skipped, whatever the node types are.
C20_NodeStatusFinal ==
    /\ [][\A i \in DOMAIN node_states :
             node_states[i] \in TerminalNodeStatus => node_states'[i] = node_states[i]]_vars
    /\ [](TraversalDone => \A i \in AllIds : StatusOf(i) \in TerminalNodeStatus)

\* ------------------------------------------------------------------------
\* Events and records of NodeDAGExecutor
\* ------------------------------------------------------------------------
\* the node_completed and node_failed events emitted for node i
TerminalEventsOf(i) ==
    {k \in DOMAIN events : events[k].node = i
                           /\ events[k].type \in {"node_completed", "node_failed"}}

\* node i is inside _execute_action_node, waiting for the agent
InFlight(i) == exec_pc = "call" /\ NodeAt(execution_order, cursor) = i

\* C21: for every executed node, of every node type and on every exit path,
\* the node_started event is followed, before the next node starts, by
\* exactly one node_completed or node_failed event for the same node.
C21_StartedThenOneOutcomeEvent ==
    \A i \in AllIds : (Executed(i) /\ ~InFlight(i)) =>
        /\ Cardinality(TerminalEventsOf(i)) = 1
        /\ \E k \in DOMAIN events :
              /\ events[k] = Event("node_started", i)
              /\ k + 1 \in TerminalEventsOf(i)

\* C22: an exception raised by the progress-event callback is swallowed: it
\* changes neither the status of the conversation nor the outcome execute
\* returns (and likewise for node and step statuses in the other executors).
C22_CallbackFailureSwallowed ==
    last_send = "callback" => (conv_status # "failed" /\ conv_result # "false")

\* the NodeExecution records written through db.create: _finalize_user writes
\* them all, after the traversal, before it updates the user execution; no
\* node handler writes one
PersistedNodeExecutions ==
    IF exec_pc = "done" /\ run_result = "true" /\ user_execution = SUCCESS
    THEN DOMAIN node_executions ELSE {}

\* C23: the execution record of a node has been written through the
\* persistence interface when the node_completed or node_failed event of the
\* node is emitted.
C23_RecordDurableBeforeEvent ==
    \A i \in AllIds : TerminalEventsOf(i) # {} => i \in PersistedNodeExecutions

\* ------------------------------------------------------------------------
\* The node policies of SmartTestOrchestrator: one multi-turn run with its
\* user tasks, node-config updates through the API, and other runs starting
\* with a config for the same node id
\* ------------------------------------------------------------------------
MaxPolicyUsers == 2

PolicyUsers == 1..MaxPolicyUsers

\* the node configs a request may carry for the node id
NodeConfigValues == {"a", "b", "c"}

InitPolicy ==
    /\ NoExecutor
    /\ NoController
    /\ NoDialog
    /\ NoCalls
    /\ node_strategies = "none"
    /\ run_config = "none"
    /\ user_pc = [u \in PolicyUsers |-> "idle"]
    /\ user_strategy = [u \in PolicyUsers |-> "none"]
    /\ NoUsers
    /\ NoClient
    /\ NoLinear
    /\ NoMessage
    /\ NoE2E

\* node_strategy = self.node_strategies.get(node_id), in the user task
LookupStrategy(store, config) == store

\* run_multi_turn_test, steps 1-3: the strategies of the run's node configs
\* are stored in self.node_strategies and the user tasks are created
StartMultiTurn ==
    /\ run_config = "none"
    /\ \E config \in NodeConfigValues :
         /\ run_config' = config
         /\ node_strategies' = config
    /\ user_pc' = [u \in PolicyUsers |-> "waiting"]
    /\ UNCHANGED user_strategy
    /\ UNCHANGED <<exec_vars, run_vars, dialog_vars, sm_calls, users_vars,
                   client_vars, linear_vars, message_vars, e2e_vars>>

\* POST /tests/multi-turn/node-config: the strategy built from the new config
\* replaces the entry of the node id in smart_orchestrator.node_strategies
UpdateNodeConfig ==
    /\ \E config \in NodeConfigValues : node_strategies' = config
    /\ UNCHANGED <<run_config, user_pc, user_strategy>>
    /\ UNCHANGED <<exec_vars, run_vars, dialog_vars, sm_calls, users_vars,
                   client_vars, linear_vars, message_vars, e2e_vars>>

\* run_multi_turn_test of another run whose node_configs has the same node id
OtherRunStarts ==
    /\ run_config # "none"
    /\ \E config \in NodeConfigValues \ {run_config} : node_strategies' = config
    /\ UNCHANGED <<run_config, user_pc, user_strategy>>
    /\ UNCHANGED <<exec_vars, run_vars, dialog_vars, sm_calls, users_vars,
                   client_vars, linear_vars, message_vars, e2e_vars>>

\* _execute_single_user reaches the node: it looks the strategy up and hands
\* it to a ConversationExecutor; without a strategy the node is passed over
UserStartsConversation ==
    /\ \E u \in PolicyUsers :
         /\ user_pc[u] = "waiting"
         /\ LET node_strategy == LookupStrategy(node_strategies, run_config) IN
            IF node_strategy = "none"
            THEN /\ user_pc' = [user_pc EXCEPT ![u] = "done"]
                 /\ UNCHANGED user_strategy
            ELSE /\ user_pc' = [user_pc EXCEPT ![u] = "talking"]
                 /\ user_strategy' = [user_strategy EXCEPT ![u] = node_strategy]
    /\ UNCHANGED <<node_strategies, run_config>>
    /\ UNCHANGED <<exec_vars, run_vars, dialog_vars, sm_calls, users_vars,
                   client_vars, linear_vars, message_vars, e2e_vars>>

\* executor.execute() returns: the conversation used the strategy object it
\* was constructed with
UserEndsConversation ==
    /\ \E u \in PolicyUsers :
         /\ user_pc[u] = "talking"
         /\ user_pc' = [user_pc EXCEPT ![u] = "done"]
    /\ UNCHANGED <<node_strategies, run_config, user_strategy>>
    /\ UNCHANGED <<exec_vars, run_vars, dialog_vars, sm_calls, users_vars,
                   client_vars, linear_vars, message_vars, e2e_vars>>

NextPolicy == StartMultiTurn \/ UpdateNodeConfig \/ OtherRunStarts
                \/ UserStartsConversation \/ UserEndsConversation

SpecPolicy == InitPolicy /\ [][NextPolicy]_vars

\* C24: the node policy used by a multi-turn run does not change while the
\* run executes: every conversation of the run works with the strategy of
\* the config the run was started with, whatever node-config updates and
\* starts of other runs happen meanwhile.
C24_RunPolicyFixed ==
    \A u \in DOMAIN user_strategy :
        user_strategy[u] # "none" => user_strategy[u] = run_config

\* ------------------------------------------------------------------------
\* The executors of concurrent users (TestOrchestrator._run_users_node_based
\* creating one NodeDAGExecutor per user task) and the objects they work on
\* ------------------------------------------------------------------------
MaxIsoUsers == 2
MaxIsoNodes == 2

IsoUsers == 1..MaxIsoUsers

NoRefs == [user_context |-> 0, node_states |-> 0, node_executions |-> 0]

\* (mutant of NewDicts: every executor gets the dicts allocated first)
NewDicts_Shared(h) == [user_context |-> 1, node_states |-> 2, node_executions |-> 3]

\* NodeDAGExecutor.__init__: self.user_context = {...}, self.node_states = {},
\* self.node_executions = {} each evaluate a dict display, a new object
NewDicts(h) ==
    [user_context |-> Len(h) + 1, node_states |-> Len(h) + 2,
     node_executions |-> Len(h) + 3]

\* the heap with the dicts r refers to, empty where they are new
Allocated(h, r) ==
    [a \in 1..Max(Len(h), r.node_executions) |-> IF a \in DOMAIN h THEN h[a] ELSE {}]

InitUsers ==
    /\ NoExecutor
    /\ NoController
    /\ NoDialog
    /\ NoCalls
    /\ NoPolicy
    /\ heap = <<>>
    /\ executors = [u \in IsoUsers |-> NoRefs]
    /\ node_count = [u \in IsoUsers |-> 0]
    /\ access = NoAccess
    /\ NoClient
    /\ NoLinear
    /\ NoMessage
    /\ NoE2E

\* run_user_with_semaphore: the user task constructs its executor
CreateExecutor ==
    /\ \E u \in IsoUsers :
         /\ executors[u] = NoRefs
         /\ LET r == NewDicts(heap) IN
            /\ executors' = [executors EXCEPT ![u] = r]
            /\ heap' = Allocated(heap, r)
    /\ UNCHANGED <<node_count, access>>
    /\ UNCHANGED <<exec_vars, run_vars, dialog_vars, sm_calls, policy_vars,
                   client_vars, linear_vars, message_vars, e2e_vars>>

\* the executor of user u handles its next node: _build_payload and
\* _build_headers read self.user_context, the handler writes
\* self.node_states and self.node_executions, and an action node with an
\* extraction updates self.user_context
ExecutorStep ==
    /\ \E u \in IsoUsers : \E extracted \in BOOLEAN :
         LET r == executors[u]
             mark == <<u, node_count[u] + 1>>
             written == {r.node_states, r.node_executions}
                        \cup (IF extracted THEN {r.user_context} ELSE {})
         IN /\ r # NoRefs
            /\ node_count[u] < MaxIsoNodes
            /\ heap' = [a \in DOMAIN heap |->
                           IF a \in written THEN heap[a] \cup {mark} ELSE heap[a]]
            /\ node_count' = [node_count EXCEPT ![u] = node_count[u] + 1]
            /\ access' = [user |-> u, read |-> {r.user_context}, written |-> written]
    /\ UNCHANGED executors
    /\ UNCHANGED <<exec_vars, run_vars, dialog_vars, sm_calls, policy_vars,
                   client_vars, linear_vars, message_vars, e2e_vars>>

NextUsers == CreateExecutor \/ ExecutorStep

SpecUsers == InitUsers /\ [][NextUsers]_vars

\* the dicts the executor of user u refers to
RefsOf(u) ==
    IF executors[u] = NoRefs THEN {}
    ELSE {executors[u].user_context, executors[u].node_states,
          executors[u].node_executions}

\* C25: no step of one user's execution reads or changes another user's
\* context, node-status map or node-execution records: the executors refer
\* to disjoint dicts, a step touches only dicts of its own executor, and a
\* dict of a user holds only what that user's steps wrote, under every
\* interleaving of the user tasks.
C25_UserIsolation ==
    /\ \A u, v \in DOMAIN executors : u # v => RefsOf(u) \cap RefsOf(v) = {}
    /\ access.user # 0 =>
          /\ (access.read \cup access.written) \subseteq RefsOf(access.user)
          /\ \A v \in DOMAIN executors : v # access.user =>
                (access.read \cup access.written) \cap RefsOf(v) = {}
    /\ \A u \in DOMAIN executors : \A a \in RefsOf(u) : \A m \in heap[a] : m[1] = u

\* two users have each handled two nodes, user 2 has stored an extracted
\* field in its context, and the latest step was one of user 1
C25_Witness ==
    /\ \A u \in {1, 2} : node_count[u] = 2
    /\ heap[executors[1].node_states] = {<<1, 1>>, <<1, 2>>}
    /\ heap[executors[2].node_states] = {<<2, 1>>, <<2, 2>>}
    /\ heap[executors[2].user_context] # {}
    /\ access.user = 1

\* node i has been through its iteration of the for loop of run
Handled(i) == (Executed(i) \/ StatusOf(i) = SKIPPED) /\ ~InFlight(i)

\* the nodes of the iterations begun so far
Dispatched ==
    {execution_order[k] :
        k \in {j \in DOMAIN execution_order :
                  j < cursor \/ (j = cursor /\ exec_pc = "call")}}

\* C26: within one user the nodes are dispatched one at a time in the order
\* _topological_sort computed at the start of run: the nodes dispatched so
\* far are a prefix of that order, a node is dispatched only when each of
\* its dependencies has been executed or skipped, and no node is executed
\* twice.
C26_DispatchFollowsOrder ==
    (exec_pc \in {"loop", "call", "done"} /\ user_execution # "none") =>
        /\ execution_order = _topological_sort(nodes)
        /\ \A i \in AllIds : (Executed(i) \/ StatusOf(i) = SKIPPED) <=> i \in Dispatched
        /\ \A i \in Dispatched : \A d \in RealDeps(nodes, i) : Handled(d)
        /\ \A i \in AllIds :
              Cardinality({k \in DOMAIN events : events[k] = Event("node_started", i)}) <= 1
        /\ \A j, k \in DOMAIN agent_calls : agent_calls[j] = agent_calls[k] => j = k

\* a traversal of three nodes in which the first node of the list has two
\* dependencies, so that the order differs from the list order, made two
\* agent calls and is in the middle of the third
C26_Witness ==
    /\ Len(nodes) = 3
    /\ RealDeps(nodes, 1) = {2, 3}
    /\ exec_pc = "call"
    /\ InFlight(1)
    /\ Len(agent_calls) = 3
    /\ Handled(2) /\ Handled(3)

\* ------------------------------------------------------------------------
\* The linear run controller on an orchestrator that is used for more than
\* one run (main.py builds one TestOrchestrator for the process)
\* ------------------------------------------------------------------------
\* TestOrchestrator.start_test called on the orchestrator after the
\* controller of its previous run has returned: a new TestRun record is
\* created and marked running, self.state_machine is the one built in
\* __init__ and is asked for the transition to running
StartTestAgain ==
    /\ mode = "linear"
    /\ ControllerReturned
    /\ total_users' \in 0..MaxUsers
    /\ concurrency' \in 0..MaxConcurrency
    /\ run_status' = "running"
    /\ success_users' = 0
    /\ failed_users' = 0
    /\ error_message' = "none"
    /\ sm_state' = transition(sm_state, "running")
    /\ task' = <<>>
    /\ results' = <<>>
    /\ limit' = 0
    /\ semaphore' = 0
    /\ ctl_pc' = "started"
    /\ UNCHANGED <<mode, progress>>
    /\ UNCHANGED <<exec_vars, dialog_vars, sm_calls, more_vars>>

NextReuse == NextRun \/ StartTestAgain

SpecReuse == InitRun /\ [][NextReuse]_vars

\* C27: when the wait_for around the gather of the linear controller
\* expires, the TestRun record is failed with the timeout message and the
\* state machine of the controller is in failed.
C27_TimeoutFailsRun ==
    (mode = "linear" /\ ctl_pc = "timeout") =>
        /\ run_status = "failed"
        /\ error_message = "Test execution timeout"
        /\ sm_state = "failed"

\* C28: a cancel request (TestOrchestrator.cancel_test) leaves the state
\* machine of the controller in cancelled or failed, and the user tasks in
\* flight are not interrupted by it.
C28_CancelMovesStateMachine ==
    [][(mode = "linear" /\ run_status # "cancelled" /\ run_status' = "cancelled") =>
          (sm_state' \in {"cancelled", "failed"} /\ task' = task /\ results' = results)]_vars

\* ------------------------------------------------------------------------
\* AgentHTTPClient.call_agent (http_client/client.py)
\* ------------------------------------------------------------------------
MaxClientCalls == 3

\* Python's None
PyNone == "None"

StatusCodes == {200, 404, 500}

\* response.text: an empty JSON object, a JSON object, the JSON literal null,
\* a body that is not JSON
Bodies == {"{}", "{task_id: t1}", "null", "<html>"}

\* str(e) of the exception a POST can end with
ExceptionTexts == {"", "Connection refused"}

\* what the POST gives: httpx.TimeoutException, another exception, or a
\* response with a status code and a body
Transports ==
    [kind : {"timeout"}, status_code : {0}, text : {""}]
        \cup [kind : {"error"}, status_code : {0}, text : ExceptionTexts]
        \cup [kind : {"response"}, status_code : StatusCodes, text : Bodies]

\* response.json(): the value parsed from the body, or an exception
json(text) ==
    CASE text = "{}" -> [raises |-> FALSE, value |-> "dict()"]
      [] text = "{task_id: t1}" -> [raises |-> FALSE, value |-> "dict(task_id)"]
      [] text = "null" -> [raises |-> FALSE, value |-> PyNone]
      [] OTHER -> [raises |-> TRUE, value |-> PyNone]

\* return success, response, error, duration_ms (the duration is left out)
Returns(success, response, error) ==
    [raised |-> FALSE, success |-> success, response |-> response, error |-> error]

\* an exception leaves call_agent
Raises == [raised |-> TRUE, success |-> FALSE, response |-> PyNone, error |-> PyNone]

\* the try body of call_agent once the POST has given a response
OnResponse(t) ==
    IF t.status_code = 200
    THEN IF json(t.text).raises
         THEN Returns(FALSE, PyNone, "JSON parse error: " \o "Expecting value")
         ELSE Returns(TRUE, json(t.text).value, PyNone)
    ELSE Returns(FALSE, PyNone, "HTTP " \o ToString(t.status_code) \o ": " \o t.text)

\* (mutant of call_agent: only httpx.TimeoutException is caught)
call_agent_TimeoutOnly(t) ==
    CASE t.kind = "response" -> OnResponse(t)
      [] t.kind = "timeout" -> Returns(FALSE, PyNone, "Timeout after 30.0s")
      [] OTHER -> Raises

\* call_agent for the outcome t of the POST: except httpx.TimeoutException
\* builds its own message, except Exception returns str(e)
call_agent(t) ==
    CASE t.kind = "response" -> OnResponse(t)
      [] t.kind = "timeout" -> Returns(FALSE, PyNone, "Timeout after 30.0s")
      [] OTHER -> Returns(FALSE, PyNone, t.text)

InitClient ==
    /\ NoExecutor
    /\ NoController
    /\ NoDialog
    /\ NoCalls
    /\ NoPolicy
    /\ NoUsers
    /\ NoLinear
    /\ NoMessage
    /\ NoE2E
    /\ client_pc = "idle"
    /\ transport = NoTransport
    /\ returned = <<>>

\* call_agent is entered and awaits client.post
CallAgent ==
    /\ client_pc = "idle"
    /\ Len(returned) < MaxClientCalls
    /\ \E t \in Transports : transport' = t
    /\ client_pc' = "awaiting"
    /\ UNCHANGED returned
    /\ UNCHANGED <<exec_vars, run_vars, dialog_vars, sm_calls, policy_vars, users_vars,
                   linear_vars, message_vars, e2e_vars>>

\* the POST ends and call_agent returns (or raises)
PostCompletes ==
    /\ client_pc = "awaiting"
    /\ returned' = Append(returned, [transport |-> transport, result |-> call_agent(transport)])
    /\ transport' = NoTransport
    /\ client_pc' = "idle"
    /\ UNCHANGED <<exec_vars, run_vars, dialog_vars, sm_calls, policy_vars, users_vars,
                   linear_vars, message_vars, e2e_vars>>

NextClient == CallAgent \/ PostCompletes

SpecClient == InitClient /\ [][NextClient]_vars

\* the POST gave a 200 response whose body is JSON
Parsed(t) == t.kind = "response" /\ t.status_code = 200 /\ ~json(t.text).raises

MaxSteps == 3

\* StepConfig.should_continue: None, or an expression
ConditionValues == {"none", "expr"}

\* the chain graph of a list of n steps: step i depends on step i - 1
ChainGraph(n) == [i \in 1..n |-> IF i = 1 THEN {} ELSE {i - 1}]

\* both executors are constructed for the same steps
InitChain ==
    /\ \E n \in 0..MaxSteps :
         /\ ExecInit(ChainGraph(n))
         /\ should_continue \in [1..n -> ConditionValues]
    /\ NoController
    /\ NoDialog
    /\ NoCalls
    /\ NoPolicy
    /\ NoUsers
    /\ NoClient
    /\ NoMessage
    /\ NoE2E
    /\ lin_pc = "start"
    /\ step_index = 0
    /\ test_steps = <<>>
    /\ lin_calls = <<>>
    /\ lin_result = "none"
    /\ lin_user = NoUserRecord
    /\ lin_end_time = "none"

\* the nodes of the chain are the steps: each is an action node
ChainDispatch == DispatchNode /\ last'.kind \in {"action", "none"}

\* what the environment gave the node-DAG executor, read from its records:
\* whether the user record could be created, whether the payload of step i
\* could be built, and what the k-th agent call gave
Created == user_execution # "none"

DagHandled(i) == i \in DOMAIN node_executions

DagCalled(i) == \E k \in 1..Len(agent_calls) : agent_calls[k] = i

DagResult(k) ==
    LET e == node_executions[agent_calls[k]]
    IN CASE e.status = SUCCESS -> "ok"
         [] e.error = "none" -> "empty"
         [] e.error = "error_msg" -> "fail"
         [] OTHER -> "raise"

\* the same template and context give the same payload, or the same
\* exception, in both executors; a step the other executor did not reach
\* may go either way
BuiltChoices(i) == IF DagHandled(i) THEN {DagCalled(i)} ELSE BOOLEAN

\* the k-th agent call gets the same result in both executors
ResultChoices(k) ==
    IF k <= Len(agent_calls) THEN {DagResult(k)} ELSE {"ok", "empty", "fail", "raise"}

\* VirtualUserExecutor._evaluate_condition: no condition continues; eval of
\* the expression gives a true value, a false value or raises, and the
\* except branch returns True
EvaluateShouldContinue(condition, ev) ==
    IF condition = "none" THEN TRUE
    ELSE IF ev = "error" THEN TRUE ELSE ev = "true"

\* (mutant of FailedStepContinues: a failed step does not end the loop)
FailedStepContinues_Always(res) == TRUE

\* should_continue = False in the failure branch of _execute_step, and
\* return False, False in its except branch
FailedStepContinues(res) == FALSE

\* the local should_continue of run after a step whose agent call gave res
StepContinues(res, condition, ev) ==
    IF res = "ok" THEN EvaluateShouldContinue(condition, ev) ELSE FailedStepContinues(res)

\* TestStep.status after a step whose agent call gave res
StepStatus(res) == IF res = "ok" THEN SUCCESS ELSE FAILED

SetStep(steps, i, status) ==
    [j \in (DOMAIN steps) \cup {i} |-> IF j = i THEN status ELSE steps[j]]

\* VirtualUser(status=IDLE, ...) stored by _create_user_record
IdleUser == [status |-> "idle", stats |-> "none"]

\* _update_user_status: user.status = RUNNING, db.update(user)
RunningUser(user) == [user EXCEPT !.status = "running"]

\* VirtualUserExecutor._finalize_user(user, success=True): the duration is
\* computed from self.end_time first; when that raises (end_time is None),
\* or when query_steps or db.update raises, the except branch logs and the
\* stored record stays as it was
FinalizeLinearUser(user, et, dbOk) ==
    IF et = "none" \/ ~dbOk THEN user
    ELSE [status |-> "completed", stats |-> "written"]

\* _finalize_user, return True, and the finally clause of run
LinReturnTrue(user) ==
    /\ \E dbOk \in BOOLEAN : lin_user' = FinalizeLinearUser(user, lin_end_time, dbOk)
    /\ lin_end_time' = "set"
    /\ lin_pc' = "done"
    /\ lin_result' = "true"

\* run up to the loop: _create_user_record; returns False without a record
LinBegin ==
    /\ lin_pc = "start"
    /\ exec_pc = "done"
    /\ IF Created
       THEN /\ lin_pc' = "loop"
            /\ step_index' = 1
            /\ lin_user' = IdleUser
            /\ UNCHANGED <<lin_result, lin_end_time>>
       ELSE /\ lin_pc' = "done"
            /\ lin_result' = "false"
            /\ lin_end_time' = "set"
            /\ UNCHANGED <<step_index, lin_user>>
    /\ UNCHANGED <<should_continue, test_steps, lin_calls>>
    /\ UNCHANGED <<exec_vars, run_vars, dialog_vars, sm_calls, policy_vars, users_vars,
                   client_vars, message_vars, e2e_vars>>

\* one iteration of the while loop of run, up to the agent call of
\* _execute_step: the TestStep record is created running and the payload is
\* built; an exception of _build_payload fails the step and ends the loop
\* (_finalize_user, return True)
LinStep ==
    /\ lin_pc = "loop"
    /\ step_index <= Len(should_continue)
    /\ \E built \in BuiltChoices(step_index) :
         IF built
         THEN /\ test_steps' = SetStep(test_steps, step_index, RUNNING)
              /\ lin_calls' = Append(lin_calls, step_index)
              /\ lin_pc' = "call"
              /\ lin_user' = RunningUser(lin_user)
              /\ UNCHANGED <<step_index, lin_result, lin_end_time>>
         ELSE /\ test_steps' = SetStep(test_steps, step_index, FAILED)
              /\ IF FailedStepContinues("raise")
                 THEN /\ step_index' = step_index + 1
                      /\ lin_user' = RunningUser(lin_user)
                      /\ UNCHANGED <<lin_pc, lin_result, lin_end_time>>
                 ELSE /\ LinReturnTrue(RunningUser(lin_user))
                      /\ UNCHANGED step_index
              /\ UNCHANGED lin_calls
    /\ UNCHANGED should_continue
    /\ UNCHANGED <<exec_vars, run_vars, dialog_vars, sm_calls, policy_vars, users_vars,
                   client_vars, message_vars, e2e_vars>>

\* _execute_step from the return of call_agent on, and the rest of the
\* iteration: the step is success or failed; the progress callback is
\* TestOrchestrator._on_user_progress, which catches what the registered
\* callbacks raise; if not should_continue: break (_finalize_user, return
\* True)
LinAgentReturn ==
    /\ lin_pc = "call"
    /\ \E res \in ResultChoices(Len(lin_calls)) : \E ev \in {"true", "false", "error"} :
         /\ test_steps' = SetStep(test_steps, step_index, StepStatus(res))
         /\ IF StepContinues(res, should_continue[step_index], ev)
            THEN /\ step_index' = step_index + 1
                 /\ lin_pc' = "loop"
                 /\ UNCHANGED <<lin_result, lin_user, lin_end_time>>
            ELSE /\ LinReturnTrue(lin_user)
                 /\ UNCHANGED step_index
    /\ UNCHANGED <<should_continue, lin_calls>>
    /\ UNCHANGED <<exec_vars, run_vars, dialog_vars, sm_calls, policy_vars, users_vars,
                   client_vars, message_vars, e2e_vars>>

\* the while loop ends with the last step: _finalize_user, return True
LinFinalize ==
    /\ lin_pc = "loop"
    /\ step_index > Len(should_continue)
    /\ LinReturnTrue(lin_user)
    /\ UNCHANGED <<should_continue, step_index, test_steps, lin_calls>>
    /\ UNCHANGED <<exec_vars, run_vars, dialog_vars, sm_calls, policy_vars, users_vars,
                   client_vars, message_vars, e2e_vars>>

NextChain == RunBegin \/ ChainDispatch \/ AgentReturn \/ RunFinalize
                \/ LinBegin \/ LinStep \/ LinAgentReturn \/ LinFinalize

SpecChain == InitChain /\ [][NextChain]_vars

\* a step the node-DAG executor executed: its node ended success or failed
DagExecuted(i) == i \in DOMAIN node_states /\ node_states[i] \in {SUCCESS, FAILED}

LinExecuted(i) == i \in DOMAIN test_steps

NoConditions == \A i \in DOMAIN should_continue : should_continue[i] = "none"

C31_TerminalFieldsFromTurns ==
    conv_status \in TerminalConversationStatus =>
        /\ conv_final.total_turns = Len(turns)
        /\ conv_final.task_generated <=> (\E i \in DOMAIN turns : turns[i].task_detected)
        /\ conv_final.task_id = FirstDetected(turns)

\* ------------------------------------------------------------------------
\* NodeStrategy.get_next_message (config/node_strategy.py)
\* ------------------------------------------------------------------------
MaxTemplates == 3
MaxHistory == 4

TemplateTexts == {"a", "b", "c"}

\* the lists a node config can give as message_generation.templates
TemplateLists == UNION {[1..n -> TemplateTexts] : n \in 0..MaxTemplates}

\* MessageGenerationStrategy: strategy_type and message_templates
\* (random_messages is left at its default)
MessageStrategies ==
    [strategy_type : {"template", "ai_generated", "random", "other"},
     message_templates : TemplateLists]

\* self.message_strategy.message_templates or the two default templates
\* (written here in ASCII: "continue", "please continue")
EffectiveTemplates(templates) ==
    IF templates = <<>> THEN <<"continue", "please continue">> ELSE templates

\* (mutant of _generate_from_template: the first template is skipped)
_generate_from_template_Shifted(templates, h) ==
    LET ts == EffectiveTemplates(templates)
    IN ts[((h + 1) % Len(ts)) + 1]

\* _generate_from_template: templates[len(history) % len(templates)], the
\* list being indexed from 0 in the code and from 1 here
_generate_from_template(templates, h) ==
    LET ts == EffectiveTemplates(templates)
    IN ts[(h % Len(ts)) + 1]

\* get_next_message: the messages a call with a history of length h can
\* return (_generate_from_ai returns None, _generate_random draws from the
\* default list)
get_next_message(ms, h) ==
    CASE ms.strategy_type = "template" -> {_generate_from_template(ms.message_templates, h)}
      [] ms.strategy_type = "ai_generated" -> {"None"}
      [] ms.strategy_type = "random" -> {"continue", "try again", "please continue"}
      [] OTHER -> {"continue"}

InitMessage ==
    /\ NoExecutor
    /\ NoController
    /\ NoDialog
    /\ NoCalls
    /\ NoPolicy
    /\ NoUsers
    /\ NoClient
    /\ NoLinear
    /\ NoE2E
    /\ message_strategy \in MessageStrategies
    /\ history_len = 0
    /\ messages = <<>>

\* get_next_message is called with a history one entry longer each time
NextMessage ==
    /\ history_len < MaxHistory
    /\ \E m \in get_next_message(message_strategy, history_len) :
         messages' = Append(messages, m)
    /\ history_len' = history_len + 1
    /\ UNCHANGED message_strategy
    /\ UNCHANGED <<exec_vars, run_vars, dialog_vars, sm_calls, policy_vars, users_vars,
                   client_vars, linear_vars, e2e_vars>>

SpecMessage == InitMessage /\ [][NextMessage]_vars

\* C32: with the template strategy the call with a history of length h
\* returns templates[h mod len(templates)] (of the default list when no
\* template is configured), so the calls with lengths 0, 1, 2, ... walk
\* through the templates in order and start again after the last one.
C32_TemplateRoundRobin ==
    message_strategy.strategy_type = "template" =>
        LET ts == EffectiveTemplates(message_strategy.message_templates)
        IN \A k \in 1..Len(messages) :
              /\ messages[k] = ts[((k - 1) % Len(ts)) + 1]
              /\ k > Len(ts) => messages[k] = messages[k - Len(ts)]
              /\ (k > 1 /\ (k - 1) % Len(ts) # 0) =>
                     \E i \in 2..Len(ts) : ts[i] = messages[k] /\ ts[i - 1] = messages[k - 1]

\* three different templates, four calls: a, b, c and a again
C32_Witness ==
    /\ message_strategy.strategy_type = "template"
    /\ message_strategy.message_templates = <<"a", "b", "c">>
    /\ messages = <<"a", "b", "c", "a">>

\* ------------------------------------------------------------------------
\* One user on the scenario start -> A -> end, with the values extracted
\* into the user context
\* ------------------------------------------------------------------------
\* a JSON value as a leaf of a body or an entry of the context
JNone == [kind |-> "none", text |-> ""]
JStr(s) == [kind |-> "str", text |-> s]
JDict(name) == [kind |-> "dict", text |-> name]
JList == [kind |-> "list", text |-> ""]

\* a JSON object, given by its leaves: the path of keys to each leaf and the
\* leaf.  {"task_id": "T1"}; {"data": {"task_id": "T2"}};
\* {"task_id": null, "message": "hi"}; {}
Bodies_E2E ==
    { (<<"task_id">> :> JStr("T1")),
      (<<"data", "task_id">> :> JStr("T2")),
      (<<"task_id">> :> JNone) @@ (<<"message">> :> JStr("hi")),
      <<>> }

\* what call_agent gives for node A: success with a body, success=False, or
\* an exception at or after the call
AgentReplies ==
    [kind : {"success"}, body : Bodies_E2E]
        \cup [kind : {"failure", "raise"}, body : {<<>>}]

\* extraction maps, the paths already split at the dots
ExtractionMaps ==
    { ("tid" :> <<"task_id">>),
      ("tid" :> <<"data", "task_id">>),
      ("tid" :> <<"data">>),
      ("token" :> <<"task_id">>),
      <<>> }

IsPrefix(p, q) == Len(p) < Len(q) /\ \A i \in 1..Len(p) : p[i] = q[i]

\* the loop over path.split('.') of _extract_fields: value.get(part) while
\* the value is a dict, None otherwise
Lookup(body, path) ==
    IF path \in DOMAIN body THEN body[path]
    ELSE IF \E q \in DOMAIN body : IsPrefix(path, q) THEN JDict(path[Len(path)])
    ELSE JNone

\* (mutant of _extract_fields: nothing is extracted)
_extract_fields_Nothing(body, ex) == <<>>

\* _extract_fields: the keys whose path leads to a value that is not None
_extract_fields(body, ex) ==
    [k \in {key \in DOMAIN ex : Lookup(body, ex[key]) # JNone} |-> Lookup(body, ex[k])]

\* dict.update
Update(ctx, extracted) ==
    [k \in (DOMAIN ctx) \cup (DOMAIN extracted) |->
        IF k \in DOMAIN extracted THEN extracted[k] ELSE ctx[k]]

\* NodeDAGExecutor.__init__: self.user_context
InitialContext ==
    ("token" :> JNone) @@ ("session_id" :> JStr("user-001"))
        @@ ("conversation_history" :> JList)

\* node 1 is the start node, node 2 the action node A, node 3 the end node
E2EGraph == <<{}, {1}, {2}>>

E2EType(node_id) ==
    CASE node_id = 1 -> "start" [] node_id = 2 -> "action" [] OTHER -> "end"

\* `if success and response_json`: the branch of _execute_action_node the
\* reply leads to
ReplyBranch(reply) ==
    CASE reply.kind = "raise" -> "raise"
      [] reply.kind = "failure" -> "fail"
      [] reply.body = <<>> -> "empty"
      [] OTHER -> "ok"

InitE2E ==
    /\ ExecInit(E2EGraph)
    /\ NoController
    /\ NoDialog
    /\ NoCalls
    /\ NoPolicy
    /\ NoUsers
    /\ NoClient
    /\ NoLinear
    /\ NoMessage
    /\ extraction \in ExtractionMaps
    /\ agent_reply \in AgentReplies
    /\ context_fields = InitialContext

\* the nodes are dispatched with the types the scenario gives them
E2EDispatch ==
    /\ DispatchNode
    /\ last'.how = "skipped" \/ last'.kind = E2EType(last'.node)

\* _execute_action_node from the return of call_agent on, with
\* self.user_context.update(extracted) on the success branch
E2EAgentReturn ==
    /\ AgentReturnExec
    /\ last'.how = ReplyBranch(agent_reply)
    /\ LET extracted == _extract_fields(agent_reply.body, extraction) IN
       IF ReplyBranch(agent_reply) = "ok"
       THEN /\ context_fields' = Update(context_fields, extracted)
            /\ (2 \in user_context') <=> (extracted # <<>>)
       ELSE UNCHANGED context_fields
    /\ UNCHANGED <<extraction, agent_reply>>
    /\ UNCHANGED <<run_vars, dialog_vars, sm_calls, policy_vars, users_vars,
                   client_vars, linear_vars, message_vars>>

NextE2E == RunBegin \/ E2EDispatch \/ E2EAgentReturn \/ RunFinalize

SpecE2E == InitE2E /\ [][NextE2E]_vars

\* the agent call of node A was made and gave HTTP success with a body that
\* has a task id under task_id, and A's extraction map sends tid to task_id
E2ECase ==
    /\ exec_pc = "done"
    /\ \E k \in 1..Len(agent_calls) : agent_calls[k] = 2
    /\ agent_reply.kind = "success"
    /\ Lookup(agent_reply.body, <<"task_id">>).kind = "str"
    /\ "tid" \in DOMAIN extraction
    /\ extraction["tid"] = <<"task_id">>

\* C33: on start -> A -> end, when the agent call of A succeeds with a body
\* containing task_id and the extraction map sends tid to task_id, the user
\* context holds tid with the returned task id after the run, and start, A
\* and end are success.
C33_EndToEndExtraction ==
    E2ECase =>
        /\ "tid" \in DOMAIN context_fields
        /\ context_fields["tid"] = Lookup(agent_reply.body, <<"task_id">>)
        /\ node_states = <<SUCCESS, SUCCESS, SUCCESS>>

\* the run of the claim has ended: the body was {"task_id": "T1"}, the
\* context holds tid = T1 next to its initial entries
C33_Witness ==
    /\ E2ECase
    /\ run_result = "true"
    /\ context_fields["tid"] = JStr("T1")
    /\ context_fields["session_id"] = JStr("user-001")
    /\ Len(agent_calls) = 1

\* the latest call of should_continue_dialog returned False at its task
\* detection test: the turn budget and the timeout had not stopped it
StoppedForDetection ==
    /\ PolicyAsked
    /\ ~MaxTurnsReached(last_check.turns, strategy.max_turns)
    /\ ~(last_check.elapsed > strategy.timeout_seconds)
    /\ last_check.detected

\* C34: the loop stops for task detection only if the agent response of the
\* most recently sent turn satisfies the task-detection policy, and then the
\* most recent recorded turn has task_detected = true.
C34_DetectionOnLatestResponse ==
    StoppedForDetection =>
        /\ last_send \in ResponseValues
        /\ _check_task_generated(strategy.detection, ResponseDict(last_send))
        /\ turns # <<>>
        /\ turns[Len(turns)].task_detected

\* ------------------------------------------------------------------------
\* The dependency gate of NodeDAGExecutor
\* ------------------------------------------------------------------------
\* C35: a node is executed only when every declared dependency is a node of
\* the scenario and has status success; a dependency that is pending, that
\* names no node, or whose node type is unknown keeps its dependent from
\* running.
C35_RunsOnlyAfterSuccess ==
    \A i \in AllIds : Executed(i) =>
        \A dep_id \in nodes[i] : dep_id \in AllIds /\ StatusOf(dep_id) = SUCCESS

\* ------------------------------------------------------------------------
\* Termination of ConversationExecutor.execute
\* ------------------------------------------------------------------------
\* the event loop resumes the coroutine whenever the awaited call (agent
\* call, database call, callback) has returned
SpecDialogFair == SpecDialog /\ WF_vars(NextDialog)

\* C36: every conversation terminates, and execute sends at most
\* max(1, max_turns) turns in total, the initial message included, for every
\* sequence of successful and failed agent calls.
C36_ConversationTerminates ==
    /\ [](turn_count <= Max(1, strategy.max_turns))
    /\ <>(conv_pc = "done")

\* the whole budget of several turns was sent, agent calls failed among them,
\* and execute returned
C36_Witness ==
    /\ conv_pc = "done"
    /\ conv_result = "true"
    /\ strategy.max_turns >= 2
    /\ turn_count = strategy.max_turns
    /\ Len(turns) < turn_count
    /\ Len(turns) > 0

\* ------------------------------------------------------------------------
\* The VirtualUser record of the linear-scenario executor
\* ------------------------------------------------------------------------
\* C37: when run of the linear-scenario executor returns success, the stored
\* record of the virtual user has status completed and its duration and
\* request/error counts are written; it is not left in status running.
C37_LinearUserCompleted ==
    (lin_pc = "done" /\ lin_result = "true") =>
        (lin_user.status = "completed" /\ lin_user.stats = "written")

\* ------------------------------------------------------------------------
\* The user_completed event of NodeDAGExecutor
\* ------------------------------------------------------------------------
\* the positions of the user_completed events sent so far
UserCompletedEvents == {k \in DOMAIN events : events[k].type = "user_completed"}

\* _finalize_user has run for the user
UserFinalized == exec_pc = "done" /\ run_result = "true"

\* C38: a node-DAG user execution that is finalized has emitted exactly one
\* user_completed event, and that event comes after all node events of the
\* user.
C38_OneUserCompletedEvent ==
    UserFinalized =>
        /\ Cardinality(UserCompletedEvents) = 1
        /\ \A k \in UserCompletedEvents : k = Len(events)

\* ------------------------------------------------------------------------
\* The state machine over the runs of one TestOrchestrator
\* ------------------------------------------------------------------------
\* C39: while user tasks of a run started through start_test are executing
\* the state machine is in running, and when the run has ended it is in
\* completed or failed, for the first run of an orchestrator and for every
\* later one.
C39_StateMachineFollowsEveryRun ==
    mode = "linear" =>
        /\ RunningUsers # {} => sm_state = "running"
        /\ ControllerReturned => sm_state \in {"completed", "failed"}

\* ------------------------------------------------------------------------
\* Progress of the fan-out
\* ------------------------------------------------------------------------
\* a fan-out whose semaphore has at least one permit
InitFanOut == InitRun /\ concurrency >= 1

\* the steps the event loop takes by itself: a coroutine that is ready is
\* resumed, and the executor of a user task returns when its agent calls
\* return.  The expiry of wait_for's timeout is not among them: it may or may
\* not come before the gather is done
FanOutStep == StartRun \/ SpawnUsers \/ UserAcquire \/ UserReturn \/ Aggregate

SpecFanOut == InitFanOut /\ [][NextRun]_vars /\ WF_vars(FanOutStep)

\* user task u exists and waits for a permit
Waiting(u) == u \in DOMAIN task /\ task[u] = "waiting"

\* user task u holds or held a permit: its executor runs or has run
Admitted(u) == u \in DOMAIN task /\ task[u] \in {"running", "done"}

\* the permits held by user tasks
HeldPermits == limit - semaphore

\* C40 as stated: every user task of a fan-out is eventually admitted and
\* run, and no permit is held when the fan-out has ended, for any number of
\* users and any concurrency of at least one.
C40_EveryUserAdmitted ==
    /\ \A u \in 1..MaxUsers : Waiting(u) ~> Admitted(u)
    /\ [](ControllerReturned => HeldPermits = 0)

\* C40 as amended: every user task of a fan-out is eventually admitted and
\* run unless the run-level timeout of the linear controller ends the
\* fan-out first; the permit of a user is released on every exit path, and
\* no permit is held when the fan-out has ended.
C40_AdmittedUnlessTimeout ==
    /\ \A u \in 1..MaxUsers : Waiting(u) ~> (Admitted(u) \/ ctl_pc = "timeout")
    /\ [](ControllerReturned => HeldPermits = 0)
    /\ [](ctl_pc = "timeout" => mode = "linear")

\* more users than permits, so that users had to wait; one executor returned
\* True and one raised; the gather is done and every permit is back
C40_Witness ==
    /\ ctl_pc = "aggregated"
    /\ limit >= 1
    /\ total_users > limit
    /\ \A u \in Users : task[u] = "done"
    /\ \E u \in Users : results[u] = "exception"
    /\ \E u \in Users : results[u] = "true"
    /\ HeldPermits = 0

====
